---- MODULE Spec2Model ----
(***************************************************************************)
(* A model of the context resolution engine of tmux-mcp: the feedback      *)
(* manager (context-resolver/feedback-manager.ts), the multi-stage scorer  *)
(* (context-resolver/multi-stage-scorer.ts), the hint interpreter          *)
(* (context-resolver/hint-interpreter.ts) and the resolver's describe      *)
(* (context-resolver/index.ts); and of two other parts of the server: the  *)
(* stream registry of the log fetcher (log-fetcher.ts) and the priority    *)
(* resolver (src/context-resolver.ts).                                     *)
(*                                                                         *)
(* Numbers.  JavaScript numbers are modelled exactly, as integers over a   *)
(* stated denominator: feedback adjustments are numerators over ttlMs      *)
(* (1 - age/ttlMs is ttlMs - age), scores and weights are in millionths    *)
(* (the code rounds them to 1e-6).                                         *)
(***************************************************************************)
EXTENDS Integers, Sequences, FiniteSets, TLC

VARIABLES
    maxEntries, \* feedback-manager.ts: options.maxEntries
    records,    \* feedback-manager.ts: the closure variable `records`
    call,       \* the last call made on the feedback manager, with its result
    scoreIn,    \* multi-stage-scorer.ts: the ScorePanesOptions of a scorePanes call
    scoreOut,   \* multi-stage-scorer.ts: what the call returned
    scoreLog,   \* the scorePanes calls made on the scorer so far, with their results
    hintIn,     \* hint-interpreter.ts: the HintInterpreterInput of an interpret call
    hintOut,    \* hint-interpreter.ts: what the call returned
    clock,      \* index.ts: what options.now() returns
    calls,      \* index.ts: the describe calls, each with its position and locals
    streams,    \* log-fetcher.ts: the closure variable `streams`
    handles,    \* log-fetcher.ts: the StreamHandles openStream has returned
    streamCall, \* the last openStream or stopStream call, with its outcome
    stopCalls,  \* log-fetcher.ts: the stopStream calls made, each with where it stands
    priorityIn, \* src/context-resolver.ts: the listed panes and the request of a describe call
    priorityOut \* src/context-resolver.ts: what the call returned or threw

storeVars == <<maxEntries, records, call>>
scoreVars == <<scoreIn, scoreOut, scoreLog>>
hintVars == <<hintIn, hintOut>>
engineVars == <<clock, calls>>
streamVars == <<streams, handles, streamCall, stopCalls>>
priorityVars == <<priorityIn, priorityOut>>
vars == <<maxEntries, records, call, scoreIn, scoreOut, scoreLog, hintIn, hintOut,
          clock, calls, streams, handles, streamCall, stopCalls, priorityIn,
          priorityOut>>

(***************************************************************************)
(* Bounds of the model.                                                    *)
(***************************************************************************)
MaxStamp == 1       \* the timestamps of registered records range over 0..MaxStamp
MaxTime == 3        \* the `now` of getAdjustments ranges over 0..MaxTime
StoreCap == 3       \* register is not called on a store of StoreCap records
OptTtlMs == 2       \* options.ttlMs of the modelled feedback manager
MaxOptEntries == 2  \* options.maxEntries ranges over 0..MaxOptEntries
MaxPanes == 3       \* a scorePanes call takes at most MaxPanes panes
MaxPaneHints == 2   \* an interpret call takes at most MaxPaneHints paneHints
MaxCandidates == 3  \* the tokenizers return at most MaxCandidates tokens
MaxScoreCalls == 3  \* one scorer takes at most MaxScoreCalls scorePanes calls
MaxStreams == 3     \* one log fetcher opens at most MaxStreams streams
MaxStopCalls == 2   \* interleaved stopStream calls: at most MaxStopCalls are made
MaxListed == 3      \* listPanes of the priority resolver returns at most MaxListed panes

Max(a, b) == IF a >= b THEN a ELSE b
Min(a, b) == IF a <= b THEN a ELSE b

RECURSIVE SumSeq(_)
SumSeq(s) == IF s = <<>> THEN 0 ELSE s[1] + SumSeq(Tail(s))

CountIn(s, x) == Cardinality({ i \in DOMAIN s : s[i] = x })

Range(s) == { s[i] : i \in DOMAIN s }

(***************************************************************************)
(* Plain JavaScript objects used as maps (Record<string, number>): a       *)
(* function whose domain is the set of keys.                               *)
(***************************************************************************)
EmptyMap == [k \in {} |-> 0]
MapGet(m, k, default) == IF k \in DOMAIN m THEN m[k] ELSE default
MapPut(m, k, v) == [x \in (DOMAIN m) \cup {k} |-> IF x = k THEN v ELSE m[x]]

(***************************************************************************)
(* The feedback manager.                                                   *)
(***************************************************************************)
PaneIds == {"%1", "%2"}
Ratings == {"match", "mismatch"}

\* A FeedbackRecord.  `finite` is Number.isFinite(timestamp); a timestamp that
\* is not finite (NaN, Infinity) has finite = FALSE and timestamp 0.
\* hintSignature is stored and never read; it is left out.
FeedbackRecord(paneId, rating, timestamp, finite) ==
    [paneId |-> paneId, rating |-> rating, timestamp |-> timestamp, finite |-> finite]

ValidRecords ==
    { FeedbackRecord(p, r, t, TRUE) : p \in PaneIds, r \in Ratings, t \in 0..MaxStamp }

MalformedRecords ==
    { FeedbackRecord("", "match", 0, TRUE),
      FeedbackRecord("%1", "neutral", 0, TRUE),
      FeedbackRecord("%1", "match", 0, FALSE),
      FeedbackRecord("", "neutral", 1, FALSE) }

clampToRange(value, min, max) == Min(Max(value, min), max)

ttlMs == Max(1, OptTtlMs)

\* records.sort((a, b) => a.timestamp - b.timestamp): Array.prototype.sort is
\* stable, so a record goes after every record whose timestamp is not larger.
RECURSIVE InsertByTimestamp(_, _)
InsertByTimestamp(sorted, record) ==
    IF sorted = <<>> THEN <<record>>
    ELSE IF sorted[Len(sorted)].timestamp - record.timestamp <= 0
         THEN Append(sorted, record)
         ELSE Append(InsertByTimestamp(SubSeq(sorted, 1, Len(sorted) - 1), record),
                     sorted[Len(sorted)])

RECURSIVE SortByTimestamp(_)
SortByTimestamp(recs) ==
    IF recs = <<>> THEN <<>>
    ELSE InsertByTimestamp(SortByTimestamp(SubSeq(recs, 1, Len(recs) - 1)),
                           recs[Len(recs)])

\* Array.prototype.slice(start) for 0 <= start.
Slice(s, start) == SubSeq(s, start + 1, Len(s))

\* prune, line 30-31: the records that are not older than ttlMs.
PruneFilter(recs, now) ==
    LET cutoff == now - ttlMs
    IN  SelectSeq(recs, LAMBDA record: record.timestamp >= cutoff)

PruneCapNoSort(recs) ==
    IF Len(recs) > maxEntries
    THEN Slice(recs, Len(recs) - maxEntries)
    ELSE recs

PruneCapOffByOne(recs) ==
    IF Len(recs) > maxEntries + 1
    THEN Slice(SortByTimestamp(recs), Len(recs) - maxEntries)
    ELSE recs

\* prune, line 32-35: the maxEntries records with the largest timestamps.
PruneCap(recs) ==
    IF Len(recs) > maxEntries
    THEN Slice(SortByTimestamp(recs), Len(recs) - maxEntries)
    ELSE recs

prune(recs, now) == PruneCap(PruneFilter(recs, now))

registerNoGuard(recs, record) == Append(recs, record)

register(recs, record) ==
    IF record.paneId = "" THEN recs
    ELSE IF ~record.finite THEN recs
    ELSE IF record.rating # "match" /\ record.rating # "mismatch" THEN recs
    ELSE Append(recs, record)

ContributionFlat(record, now) ==
    IF record.rating = "match" THEN ttlMs ELSE -ttlMs

\* getAdjustments, line 49-53, for a record that passed `age >= ttlMs`:
\* (rating = match ? 1 : -1) * clamp(1 - age/ttlMs, 0, 1), as a numerator
\* over ttlMs.
Contribution(record, now) ==
    LET age == Max(0, now - record.timestamp)
        decay == ttlMs - age
    IN  (IF record.rating = "match" THEN 1 ELSE -1) * clampToRange(decay, 0, ttlMs)

AccumulateStepKeepZero(adjustments, record, now) ==
    MapPut(adjustments, record.paneId,
           MapGet(adjustments, record.paneId, 0)
             + (IF Max(0, now - record.timestamp) >= ttlMs
                THEN 0 ELSE Contribution(record, now)))

\* getAdjustments, the body of the loop of line 48-57.
AccumulateStep(adjustments, record, now) ==
    LET age == Max(0, now - record.timestamp)
    IN  IF age >= ttlMs THEN adjustments
        ELSE LET contribution == Contribution(record, now)
             IN  IF contribution = 0 THEN adjustments
                 ELSE MapPut(adjustments, record.paneId,
                             MapGet(adjustments, record.paneId, 0) + contribution)

RECURSIVE Accumulate(_, _, _, _)
Accumulate(recs, i, now, adjustments) ==
    IF i > Len(recs) THEN adjustments
    ELSE Accumulate(recs, i + 1, now, AccumulateStep(adjustments, recs[i], now))

\* getAdjustments(now), applied to the records prune(now) retained.
getAdjustments(pruned, now) == Accumulate(pruned, 1, now, EmptyMap)


(***************************************************************************)
(* Strings.  A string of the model is a TLA+ string; where the code looks  *)
(* inside one (toLowerCase, includes, localeCompare) the model looks at    *)
(* its characters, which Chars gives.                                      *)
(***************************************************************************)
Chars(str) ==
    CASE str = "" -> <<>>
      [] str = "%1" -> <<"%", "1">>
      [] str = "%2" -> <<"%", "2">>
      [] str = "%10" -> <<"%", "1", "0">>
      [] str = "1" -> <<"1">>
      [] str = "2" -> <<"2">>
      [] str = "dev" -> <<"d", "e", "v">>
      [] str = "ops" -> <<"o", "p", "s">>
      [] str = "vim" -> <<"v", "i", "m">>
      [] str = "Vim" -> <<"V", "i", "m">>
      [] str = "VIM" -> <<"V", "I", "M">>
      [] str = "tail" -> <<"t", "a", "i", "l">>
      [] str = "node" -> <<"n", "o", "d", "e">>
      [] str = "logs" -> <<"l", "o", "g", "s">>
      [] str = "pane" -> <<"p", "a", "n", "e">>
      [] str = "build" -> <<"b", "u", "i", "l", "d">>
      [] str = "Vim Main" -> <<"V", "i", "m", " ", "M", "a", "i", "n">>
      [] str = "vim main" -> <<"v", "i", "m", " ", "m", "a", "i", "n">>
      [] str = "logs tail" -> <<"l", "o", "g", "s", " ", "t", "a", "i", "l">>
      [] str = "dev pane" -> <<"d", "e", "v", " ", "p", "a", "n", "e">>

\* String.prototype.toLowerCase: the strings of the model that hold an
\* upper-case letter, and the others, which it leaves as they are.
toLowerCase(str) ==
    CASE str = "Vim" -> "vim"
      [] str = "VIM" -> "vim"
      [] str = "Vim Main" -> "vim main"
      [] OTHER -> str

\* String.prototype.includes.
includes(chars, search) ==
    \E i \in 0..(Len(chars) - Len(search)) :
        SubSeq(chars, i + 1, i + Len(search)) = search

\* The collation rank of a character of a pane id ("%" and the digits): in
\* the root collation punctuation sorts before digits and digits by value.
CollationRank(c) ==
    CASE c = "%" -> 0
      [] c = "0" -> 1
      [] c = "1" -> 2
      [] c = "2" -> 3
      [] OTHER -> 4

\* String.prototype.localeCompare on two strings of these characters: the
\* sign of the first difference, a proper prefix sorting first.
RECURSIVE localeCompareChars(_, _)
localeCompareChars(a, b) ==
    IF a = <<>> /\ b = <<>> THEN 0
    ELSE IF a = <<>> THEN -1
    ELSE IF b = <<>> THEN 1
    ELSE IF CollationRank(Head(a)) < CollationRank(Head(b)) THEN -1
    ELSE IF CollationRank(Head(a)) > CollationRank(Head(b)) THEN 1
    ELSE localeCompareChars(Tail(a), Tail(b))

localeCompare(a, b) == localeCompareChars(Chars(a), Chars(b))

(***************************************************************************)
(* The multi-stage scorer.  Scores and weights are integers in millionths. *)
(***************************************************************************)
Micro == 1000000

\* Math.round(n / d), d > 0: the nearest integer, a half rounding up.
MathRound(n, d) == (2 * n + d) \div (2 * d)

\* round(value) of line 71 for the value n / d millionths.
round(n, d) == MathRound(n, d)

\* round(x * y) of line 71 for two numbers given in millionths:
\* Math.round(x * y / Micro), exactly, by long multiplication in base 1000
\* (the checker's integers have 32 bits).
roundProduct(x, y) ==
    LET x1 == x \div 1000
        x0 == x % 1000
        y1 == y \div 1000
        y0 == y % 1000
        mid == x1 * y0 + x0 * y1
        low == (mid % 1000) * 1000 + x0 * y0
    IN  x1 * y1 + (mid \div 1000) + MathRound(low, Micro)

STAGES ==
    <<"default", "hint", "activePane", "activeWindow", "activeSession",
      "layoutSameWindow", "layoutSameSession", "commandCategory", "feedback">>

\* A TmuxPane.  An absent currentCommand is "" (the scorer treats both as
\* falsy); lastUsed is <<>> when absent and <<n>> otherwise.
TmuxPane(id, title, session, window, currentCommand, isActive, isActiveWindow, isActiveSession, lastUsed, tags) ==
    [id |-> id, title |-> title, session |-> session, window |-> window,
     currentCommand |-> currentCommand, isActive |-> isActive,
     isActiveWindow |-> isActiveWindow, isActiveSession |-> isActiveSession,
     lastUsed |-> lastUsed, tags |-> tags]

paneMatchesToken(pane, token) ==
    LET lowerToken == toLowerCase(token)
        candidates == <<pane.id, pane.title, pane.window, pane.session,
                        pane.currentCommand>> \o pane.tags
    IN  \E i \in DOMAIN candidates :
           /\ candidates[i] # ""
           /\ includes(Chars(toLowerCase(candidates[i])), Chars(lowerToken))

createStageMapShared ==
    [stage \in Range(STAGES) |->
        IF scoreOut.called /\ scoreOut.scored # <<>>
        THEN scoreOut.scored[1].stageContributions[stage]
        ELSE 0]

createStageMap == [stage \in Range(STAGES) |-> 0]

Reason(stage, value) == [stage |-> stage, value |-> value]

\* computeHintContribution: [value, reasons] after the hints from index i on.
RECURSIVE HintLoop(_, _, _, _, _, _)
HintLoop(pane, hints, weights, i, total, reasons) ==
    IF i > Len(hints) THEN [value |-> round(total, 1), reasons |-> reasons]
    ELSE IF ~paneMatchesToken(pane, hints[i].token)
         THEN HintLoop(pane, hints, weights, i + 1, total, reasons)
    ELSE LET value == roundProduct(hints[i].weight, weights.hint)
         IN  IF value <= 0
             THEN HintLoop(pane, hints, weights, i + 1, total, reasons)
             ELSE HintLoop(pane, hints, weights, i + 1, total + value,
                           Append(reasons, Reason("hint", value)))

computeHintContribution(pane, hints, weights, reasons) ==
    HintLoop(pane, hints, weights, 1, 0, reasons)

computeCommandContribution(pane, weights, reasons) ==
    LET command == toLowerCase(pane.currentCommand)
        weight == MapGet(weights.commandCategories, command, 0)
    IN  IF command = "" THEN [value |-> 0, reasons |-> reasons]
        ELSE IF weight = 0 THEN [value |-> 0, reasons |-> reasons]
        ELSE [value |-> round(weight, 1),
              reasons |-> Append(reasons, Reason("commandCategory", weight))]

computeLayoutContribution(pane, activeWindows, activeSessions, weights, reasons) ==
    LET windowContribution ==
            IF pane.window \in activeWindows
            THEN round(weights.layoutBonus.sameWindow, 1) ELSE 0
        afterWindow ==
            IF pane.window \in activeWindows /\ windowContribution > 0
            THEN Append(reasons, Reason("layoutSameWindow", windowContribution))
            ELSE reasons
        sessionContribution ==
            IF pane.session \in activeSessions
            THEN round(weights.layoutBonus.sameSession, 1) ELSE 0
        afterSession ==
            IF pane.session \in activeSessions /\ sessionContribution > 0
            THEN Append(afterWindow, Reason("layoutSameSession", sessionContribution))
            ELSE afterWindow
    IN  [windowContribution |-> windowContribution,
         sessionContribution |-> sessionContribution,
         reasons |-> afterSession]

\* computeFeedbackContribution.  An adjustment is a numerator over ttlMs.
computeFeedbackContribution(pane, adjustments, weights, reasons) ==
    LET adjustment == MapGet(adjustments, pane.id, 0)
        positive == adjustment > 0
        multiplier == IF positive THEN weights.feedback.positive
                      ELSE weights.feedback.negative
        value == round(multiplier * adjustment, ttlMs)
    IN  IF adjustment = 0 THEN [value |-> 0, reasons |-> reasons]
        ELSE IF value = 0 THEN [value |-> 0, reasons |-> reasons]
        ELSE [value |-> value,
              reasons |-> Append(reasons, Reason("feedback", value))]

\* The body of panes.map of line 197-286: the ScoredPane of one pane.
StageTotalClamped(stageContributions) ==
    Max(0, SumSeq([i \in DOMAIN STAGES |-> stageContributions[STAGES[i]]]))

\* line 275-278: STAGES.reduce((sum, stage) => sum + stageContributions[stage], 0).
StageTotal(stageContributions) ==
    SumSeq([i \in DOMAIN STAGES |-> stageContributions[STAGES[i]]])

ScoreOne(pane, hints, weights, feedbackAdjustments, activeWindows, activeSessions) ==
    LET default == round(weights.defaultPane, 1)
        r1 == IF default > 0 THEN <<Reason("default", default)>> ELSE <<>>
        hint == computeHintContribution(pane, hints, weights, r1)
        activePane == IF pane.isActive THEN round(weights.activePane, 1) ELSE 0
        r3 == IF pane.isActive /\ activePane > 0
              THEN Append(hint.reasons, Reason("activePane", activePane))
              ELSE hint.reasons
        activeWindow == IF pane.isActiveWindow THEN round(weights.activeWindow, 1) ELSE 0
        r4 == IF pane.isActiveWindow /\ activeWindow > 0
              THEN Append(r3, Reason("activeWindow", activeWindow)) ELSE r3
        activeSession == IF pane.isActiveSession THEN round(weights.activeSession, 1) ELSE 0
        r5 == IF pane.isActiveSession /\ activeSession > 0
              THEN Append(r4, Reason("activeSession", activeSession)) ELSE r4
        layout == computeLayoutContribution(pane, activeWindows, activeSessions,
                                            weights, r5)
        command == computeCommandContribution(pane, weights, layout.reasons)
        feedback == computeFeedbackContribution(pane, feedbackAdjustments, weights,
                                                command.reasons)
        stageContributions ==
            [createStageMap EXCEPT
               !["default"] = default,
               !["hint"] = IF hint.value > 0 THEN hint.value ELSE @,
               !["activePane"] = IF pane.isActive THEN activePane ELSE @,
               !["activeWindow"] = IF pane.isActiveWindow THEN activeWindow ELSE @,
               !["activeSession"] = IF pane.isActiveSession THEN activeSession ELSE @,
               !["layoutSameWindow"] =
                   IF layout.windowContribution > 0
                   THEN layout.windowContribution ELSE @,
               !["layoutSameSession"] =
                   IF layout.sessionContribution > 0
                   THEN layout.sessionContribution ELSE @,
               !["commandCategory"] = IF command.value > 0 THEN command.value ELSE @,
               !["feedback"] = IF feedback.value # 0 THEN feedback.value ELSE @]
        total == StageTotal(stageContributions)
    IN  [pane |-> pane, total |-> round(total, 1),
         stageContributions |-> stageContributions, reasons |-> feedback.reasons]

\* a.pane.lastUsed ?? FALLBACK_RECENCY, FALLBACK_RECENCY being -Infinity:
\* [inf |-> TRUE] is -Infinity, [inf |-> FALSE, n |-> n] the number n.
RecencyZeroFallback(pane) ==
    IF pane.lastUsed = <<>> THEN [inf |-> FALSE, n |-> 0]
    ELSE [inf |-> FALSE, n |-> pane.lastUsed[1]]

Recency(pane) ==
    IF pane.lastUsed = <<>> THEN [inf |-> TRUE, n |-> 0]
    ELSE [inf |-> FALSE, n |-> pane.lastUsed[1]]

Sign(n) == IF n < 0 THEN -1 ELSE IF n > 0 THEN 1 ELSE 0

\* The sign of b - a for two numbers that may be -Infinity and are not equal.
RecencyDiffSign(b, a) ==
    IF b.inf THEN -1
    ELSE IF a.inf THEN 1
    ELSE Sign(b.n - a.n)

\* The comparator of scored.sort, line 288-294: the sign of what it returns.
CompareScored(a, b) ==
    IF b.total # a.total THEN Sign(b.total - a.total)
    ELSE IF Recency(b.pane) # Recency(a.pane)
         THEN RecencyDiffSign(Recency(b.pane), Recency(a.pane))
    ELSE localeCompare(a.pane.id, b.pane.id)

\* Array.prototype.sort with CompareScored: a stable sort, an entry going
\* after every entry the comparator does not place after it.
RECURSIVE InsertScored(_, _)
InsertScored(sorted, entry) ==
    IF sorted = <<>> THEN <<entry>>
    ELSE IF CompareScored(sorted[Len(sorted)], entry) <= 0
         THEN Append(sorted, entry)
         ELSE Append(InsertScored(SubSeq(sorted, 1, Len(sorted) - 1), entry),
                     sorted[Len(sorted)])

RECURSIVE SortScored(_)
SortScored(entries) ==
    IF entries = <<>> THEN <<>>
    ELSE InsertScored(SortScored(SubSeq(entries, 1, Len(entries) - 1)),
                      entries[Len(entries)])

scorePanes(panes, hints, weights, feedbackAdjustments) ==
    LET activeWindows ==
            { panes[i].window : i \in { j \in DOMAIN panes : panes[j].isActiveWindow } }
        activeSessions ==
            { panes[i].session : i \in { j \in DOMAIN panes : panes[j].isActiveSession } }
        scored == [i \in DOMAIN panes |->
                     ScoreOne(panes[i], hints, weights, feedbackAdjustments,
                              activeWindows, activeSessions)]
    IN  SortScored(scored)

\* DEFAULT_SCORING_WEIGHTS of context-resolver/index.ts, in millionths.
DefaultWeights ==
    [hint |-> 4000000, activePane |-> 3000000, activeWindow |-> 2000000,
     activeSession |-> 1000000, defaultPane |-> 500000,
     commandCategories |-> [c \in {"vim", "tail", "ssh"} |->
                              IF c = "vim" THEN 2000000 ELSE 1000000],
     layoutBonus |-> [sameWindow |-> 1500000, sameSession |-> 750000],
     feedback |-> [positive |-> 1000000, negative |-> 1000000]]

\* A caller's configuration with negative multipliers.
NegativeWeights ==
    [hint |-> -4000000, activePane |-> -3000000, activeWindow |-> -2000000,
     activeSession |-> -1000000, defaultPane |-> -500000,
     commandCategories |-> [c \in {"vim", "tail"} |->
                              IF c = "vim" THEN -2000000 ELSE 0],
     layoutBonus |-> [sameWindow |-> -1500000, sameSession |-> -750000],
     feedback |-> [positive |-> 1000000, negative |-> 1000000]]

\* A caller's configuration whose products need rounding.
FractionWeights ==
    [hint |-> 500000, activePane |-> 250000, activeWindow |-> 0,
     activeSession |-> 1, defaultPane |-> 0,
     commandCategories |-> [c \in {"vim"} |-> 333333],
     layoutBonus |-> [sameWindow |-> 0, sameSession |-> 125000],
     feedback |-> [positive |-> 500000, negative |-> 2000001]]

WeightConfigs == {DefaultWeights, NegativeWeights, FractionWeights}

WeightedHint(token, weight, source) ==
    [token |-> token, weight |-> weight, source |-> source]

HintLists ==
    { <<>>,
      <<WeightedHint("vim", 600000, "nl"), WeightedHint("logs", 400000, "nl")>>,
      <<WeightedHint("%1", 333333, "composite"),
        WeightedHint("dev pane", 333333, "exact"),
        WeightedHint("dev", 166667, "nl"), WeightedHint("pane", 166667, "nl")>> }

\* Feedback adjustments, numerators over ttlMs.
AdjustmentMaps ==
    { EmptyMap,
      [id \in {"%1", "%2"} |-> IF id = "%1" THEN 1 ELSE -2 * ttlMs],
      [id \in {"%2", "%10"} |-> IF id = "%2" THEN 0 ELSE ttlMs] }

ScorerIds == {"%1", "%2", "%10"}

PaneProfiles ==
    { TmuxPane("", "build", "ops", "2", "node", FALSE, FALSE, FALSE, <<>>, <<>>),
      TmuxPane("", "Vim Main", "dev", "1", "Vim", TRUE, TRUE, TRUE, <<>>, <<>>),
      TmuxPane("", "logs tail", "dev", "1", "tail", FALSE, FALSE, TRUE, <<>>,
               <<"logs">>) }

\* lastUsed is parseInt of tmux's pane_last flag, or absent.
LastUsedValues == {<<>>, <<0>>, <<1>>}

PaneVariants ==
    { [profile EXCEPT !.id = id, !.lastUsed = lastUsed] :
        id \in ScorerIds, profile \in PaneProfiles, lastUsed \in LastUsedValues }

\* The lists of at most MaxPanes panes, in every order; pane ids are unique.
PaneLists ==
    UNION { { panes \in [1..n -> PaneVariants] :
                \A i, j \in 1..n : i # j => panes[i].id # panes[j].id } :
            n \in 0..MaxPanes }

NotScored == [called |-> FALSE, scored |-> <<>>]

NoScoreInput ==
    [panes |-> <<>>, hints |-> <<>>, weights |-> DefaultWeights,
     feedbackAdjustments |-> EmptyMap]

ScoreIdle ==
    /\ scoreIn = NoScoreInput
    /\ scoreOut = NotScored
    /\ scoreLog = <<>>


(***************************************************************************)
(* The hint interpreter.  A weight before normalization is an exact        *)
(* rational [num, den]; a normalized weight is an integer in millionths.   *)
(***************************************************************************)
Rat(num, den) == [num |-> num, den |-> den]

\* a + b on two rationals; the denominators that occur are 1 and the number
\* of tokens.
RatAdd(a, b) ==
    IF a.den = b.den THEN Rat(a.num + b.num, a.den)
    ELSE Rat(a.num * b.den + b.num * a.den, a.den * b.den)

EXACT_WEIGHT == 1
NATURAL_LANGUAGE_WEIGHT == 1
DEFAULT_COMPOSITE_WEIGHT == 1

\* English and Japanese stop words of the model's tokens ("U+306E" stands
\* for the one-character string of that code point, hiragana NO).
ENGLISH_STOP_WORDS == {"the", "please", "show", "me"}
JAPANESE_STOP_WORDS == {"U+306E"}

\* normalizeWhitespace(value.normalize("NFKC")).trim() on the texts of the model.
normalizeTrim(value) ==
    CASE value = "   " -> ""
      [] value = " Dev  Pane " -> "Dev Pane"
      [] OTHER -> value

\* String.prototype.toLowerCase on the texts of the hint interpreter.
hintLowerCase(value) ==
    CASE value = "Dev Pane" -> "dev pane"
      [] value = "Dev" -> "dev"
      [] value = "Logs" -> "logs"
      [] OTHER -> value

sanitizeExact(value) == hintLowerCase(normalizeTrim(value))

sanitizeComposite(value) == hintLowerCase(normalizeTrim(value))

sanitizeToken(value) == hintLowerCase(value)

\* token.replace(/^[^\p{L}\p{N}%#]+|[^\p{L}\p{N}%#]+$/gu, "").trim()
stripPunctuation(token) ==
    CASE token = "pane," -> "pane"
      [] token = "--" -> ""
      [] OTHER -> token

isStopWord(token) == token \in ENGLISH_STOP_WORDS \/ token \in JAPANESE_STOP_WORDS

\* /^[\p{Script=Hiragana}]{1}$/u: "U+306E" (NO) and "U+3042" (A) are the
\* single hiragana characters of the model.
isMinorKanaToken(token) == token \in {"U+306E", "U+3042"}

RECURSIVE dedupeFrom(_, _, _)
dedupeFrom(values, i, result) ==
    IF i > Len(values) THEN result
    ELSE dedupeFrom(values, i + 1,
                    IF values[i] \in Range(result) THEN result
                    ELSE Append(result, values[i]))

dedupeInOrder(values) == dedupeFrom(values, 1, <<>>)

\* extractNaturalLanguageTokens, line 635-642, on the tokenizers' candidates.
normalizeCandidates(candidates) ==
    LET sanitized == [i \in DOMAIN candidates |->
                        stripPunctuation(sanitizeToken(candidates[i]))]
        nonEmpty == SelectSeq(sanitized, LAMBDA token: token # "")
        noStop == SelectSeq(nonEmpty, LAMBDA token: ~isStopWord(token))
        noKana == SelectSeq(noStop, LAMBDA token: ~isMinorKanaToken(token))
    IN  dedupeInOrder(noKana)

\* sumWeights: hints.reduce((total, hint) => total + hint.weight, 0).
sumWeights(hints) ==
    LET RECURSIVE Sum(_, _)
        Sum(i, total) == IF i > Len(hints) THEN total
                         ELSE Sum(i + 1, RatAdd(total, hints[i].weight))
    IN  Sum(1, Rat(0, 1))

\* The quotient and the remainder of n * 10^k by d, digit by digit: q and r
\* are those of n * 10^j for the digits done so far.
RECURSIVE ScaleDigits(_, _, _, _)
ScaleDigits(q, r, d, k) ==
    IF k = 0 THEN [q |-> q, r |-> r]
    ELSE ScaleDigits(q * 10 + (r * 10) \div d, (r * 10) % d, d, k - 1)

\* Math.round((n / d) * 1e6) for n >= 0 and d > 0, a half rounding up.
roundMillionths(n, d) ==
    LET scaled == ScaleDigits(n \div d, n % d, d, 6)
    IN  IF 2 * scaled.r >= d THEN scaled.q + 1 ELSE scaled.q

normalizeWeightsTruncating(hints) ==
    LET total == sumWeights(hints)
    IN  IF total.num <= 0 THEN <<>>
        ELSE [i \in DOMAIN hints |->
                [token |-> hints[i].token,
                 weight |-> ScaleDigits((hints[i].weight.num * total.den)
                                           \div (hints[i].weight.den * total.num),
                                        (hints[i].weight.num * total.den)
                                           % (hints[i].weight.den * total.num),
                                        hints[i].weight.den * total.num, 6).q,
                 source |-> hints[i].source]]

\* normalizeWeights: Math.round((weight / total) * 1e6) / 1e6, in millionths.
normalizeWeights(hints) ==
    LET total == sumWeights(hints)
    IN  IF total.num <= 0 THEN <<>>
        ELSE [i \in DOMAIN hints |->
                [token |-> hints[i].token,
                 weight |-> roundMillionths(hints[i].weight.num * total.den,
                                            hints[i].weight.den * total.num),
                 source |-> hints[i].source]]

\* addHint on the interpreter's running state [pending, rawTokens, issues].
addHint(st, token, weight, source) ==
    IF token = "" \/ weight.num <= 0 THEN st
    ELSE LET found == { i \in DOMAIN st.pending :
                           st.pending[i].token = token /\ st.pending[i].source = source }
             pending ==
                IF found # {}
                THEN LET i == CHOOSE j \in found : \A k \in found : j <= k
                     IN  [st.pending EXCEPT ![i].weight = RatAdd(@, weight)]
                ELSE Append(st.pending,
                            [token |-> token, weight |-> weight, source |-> source])
         IN  [st EXCEPT !.pending = pending,
                        !.rawTokens = IF token \in Range(@) THEN @ ELSE Append(@, token)]

\* paneHints.forEach of line 685-697, from entry i on.  An entry's weight is
\* <<>> when absent and <<w>> otherwise.
RECURSIVE paneHintsLoop(_, _, _)
paneHintsLoop(paneHints, i, st) ==
    IF i > Len(paneHints) THEN st
    ELSE LET entry == paneHints[i]
             sanitizedValue == sanitizeComposite(entry.value)
             weight == IF entry.weight # <<>> /\ entry.weight[1].num > 0
                       THEN entry.weight[1]
                       ELSE Rat(DEFAULT_COMPOSITE_WEIGHT, 1)
         IN  IF sanitizedValue = ""
             THEN paneHintsLoop(paneHints, i + 1,
                    [st EXCEPT !.issues = Append(@, <<"paneHints was empty after trimming", i - 1>>)])
             ELSE paneHintsLoop(paneHints, i + 1,
                                addHint(st, sanitizedValue, weight, "composite"))

RECURSIVE tokensLoopFullWeight(_, _, _, _)
tokensLoopFullWeight(tokens, i, perTokenWeight, st) ==
    IF i > Len(tokens) THEN st
    ELSE tokensLoopFullWeight(tokens, i + 1, perTokenWeight,
                              addHint(st, tokens[i], Rat(NATURAL_LANGUAGE_WEIGHT, 1), "nl"))

RECURSIVE tokensLoop(_, _, _, _)
tokensLoop(tokens, i, perTokenWeight, st) ==
    IF i > Len(tokens) THEN st
    ELSE tokensLoop(tokens, i + 1, perTokenWeight,
                    addHint(st, tokens[i], perTokenWeight, "nl"))

\* line 700-717.  paneHint is <<>> when undefined and <<text>> otherwise;
\* candidates is what the tokenizers return for the trimmed text.
paneHintStep(paneHint, candidates, st) ==
    IF paneHint = <<>> THEN st
    ELSE LET trimmed == normalizeTrim(paneHint[1])
         IN  IF trimmed = ""
             THEN [st EXCEPT !.issues = Append(@, <<"paneHint was empty after trimming">>)]
             ELSE LET exactToken == sanitizeExact(trimmed)
                      withExact == addHint(st, exactToken, Rat(EXACT_WEIGHT, 1), "exact")
                      tokens == normalizeCandidates(candidates)
                  IN  IF Len(tokens) > 0
                      THEN tokensLoop(tokens, 1,
                                      Rat(NATURAL_LANGUAGE_WEIGHT, Len(tokens)), withExact)
                      ELSE [withExact EXCEPT
                              !.issues = Append(@, <<"paneHint produced no keywords">>)]

\* interpret(input), the tokenizers returning `candidates`.
interpret(input, candidates) ==
    LET start == [pending |-> <<>>, rawTokens |-> <<>>, issues |-> <<>>]
        afterPaneHints == paneHintsLoop(input.paneHints, 1, start)
        final == paneHintStep(input.paneHint, candidates, afterPaneHints)
    IN  [weightedHints |-> normalizeWeights(final.pending),
         rawTokens |-> final.rawTokens,
         issues |-> final.issues,
         pending |-> final.pending]

PaneHintEntries ==
    { [value |-> "%1", weight |-> <<>>],
      [value |-> "%1", weight |-> <<Rat(3, 1)>>],
      [value |-> "%1", weight |-> <<Rat(0, 1)>>],
      [value |-> "Logs", weight |-> <<>>],
      [value |-> "Logs", weight |-> <<Rat(3, 1)>>],
      [value |-> "Logs", weight |-> <<Rat(3000000, 1)>>],
      [value |-> "   ", weight |-> <<>>] }

PaneHintLists == UNION { [1..n -> PaneHintEntries] : n \in 0..MaxPaneHints }

PaneHintTexts == { <<>>, <<"   ">>, <<" Dev  Pane ">> }

\* What the tokenizers (kuromoji, compromise, Intl.Segmenter, the fallback
\* split) may return: any list of these tokens.
CandidateTokens == {"Dev", "dev", "pane,", "logs", "the", "U+3042"}

CandidateLists == UNION { [1..n -> CandidateTokens] : n \in 0..MaxCandidates }

NotInterpreted ==
    [called |-> FALSE, candidates |-> <<>>, weightedHints |-> <<>>,
     rawTokens |-> <<>>, issues |-> <<>>, pending |-> <<>>]

NoHintInput == [paneHint |-> <<>>, paneHints |-> <<>>]

HintIdle ==
    /\ hintIn = NoHintInput
    /\ hintOut = NotInterpreted


(***************************************************************************)
(* The context resolver: describe.                                         *)
(***************************************************************************)
\* The describe calls in flight at a time.
Slots == {1}

\* createNoPaneError, and the errors of the collaborators, which describe
\* lets through.
NoPaneError == "No tmux panes were detected"
TmuxError == "tmux list-panes failed"
InterpreterError == "hint interpreter failed"

\* getCurrentSession resolves to a session name or to undefined.
Undefined == "undefined"

\* line 188-196: the panes describe scores.  agentSession is Undefined or a
\* string; the empty string is falsy.
ScopeAllWhenEmpty(panes, agentSession) ==
    LET inSession == SelectSeq(panes, LAMBDA pane: pane.session = agentSession)
    IN  IF agentSession # Undefined /\ agentSession # "" /\ inSession # <<>>
        THEN inSession
        ELSE panes

ScopeFlagsFirst(panes, agentSession) ==
    LET activeSessionIds ==
            { panes[i].session : i \in { j \in DOMAIN panes : panes[j].isActiveSession } }
    IN  IF activeSessionIds # {}
        THEN SelectSeq(panes, LAMBDA pane: pane.session \in activeSessionIds)
        ELSE IF agentSession # Undefined /\ agentSession # ""
        THEN SelectSeq(panes, LAMBDA pane: pane.session = agentSession)
        ELSE panes

ScopeBySessionOnly(panes, agentSession) ==
    IF agentSession # Undefined /\ agentSession # ""
    THEN SelectSeq(panes, LAMBDA pane: pane.session = agentSession)
    ELSE panes

ScopePanes(panes, agentSession) ==
    LET activeSessionIds ==
            { panes[i].session : i \in { j \in DOMAIN panes : panes[j].isActiveSession } }
    IN  IF agentSession # Undefined /\ agentSession # ""
        THEN SelectSeq(panes, LAMBDA pane: pane.session = agentSession)
        ELSE IF activeSessionIds # {}
        THEN SelectSeq(panes, LAMBDA pane: pane.session \in activeSessionIds)
        ELSE panes

FeedbackSectionReadFirst(recs, feedback, timestamp) ==
    LET pruned == prune(recs, timestamp)
    IN  [records |-> IF feedback = <<>> THEN pruned
                     ELSE register(pruned,
                            FeedbackRecord(feedback[1].paneId, feedback[1].rating,
                                           timestamp, TRUE)),
         managerAdjustments |-> getAdjustments(pruned, timestamp)]

\* line 206-216: register the request's feedback, if any, then read the
\* manager's adjustments.  feedback is <<>> when absent.
FeedbackSection(recs, feedback, timestamp) ==
    LET registered ==
            IF feedback = <<>> THEN recs
            ELSE register(recs, FeedbackRecord(feedback[1].paneId, feedback[1].rating,
                                               timestamp, TRUE))
        pruned == prune(registered, timestamp)
    IN  [records |-> pruned,
         managerAdjustments |-> getAdjustments(pruned, timestamp)]

\* The manager's adjustments assigned over the external ones.
MergeAdjustmentsManagerWins(externalAdjustments, managerAdjustments) ==
    [paneId \in (DOMAIN externalAdjustments) \cup (DOMAIN managerAdjustments) |->
        IF paneId \in DOMAIN managerAdjustments
        THEN managerAdjustments[paneId]
        ELSE externalAdjustments[paneId]]

\* line 217-222: the external adjustments, then the manager's added to them.
MergeAdjustments(externalAdjustments, managerAdjustments) ==
    [paneId \in (DOMAIN externalAdjustments) \cup (DOMAIN managerAdjustments) |->
        IF paneId \in DOMAIN managerAdjustments
        THEN MapGet(externalAdjustments, paneId, 0) + managerAdjustments[paneId]
        ELSE externalAdjustments[paneId]]

\* line 217-222: the object the external source returned, after the merge.
\* The spread of line 217 copies it, and line 218-222 write to the copy.
ExternalAfterMerge(externalAdjustments, managerAdjustments) == externalAdjustments

toResultPane(entry) ==
    [id |-> entry.pane.id, title |-> entry.pane.title, session |-> entry.pane.session,
     window |-> entry.pane.window, command |-> entry.pane.currentCommand,
     score |-> entry.total, reasons |-> entry.reasons]

\* What listPanes may resolve to: the panes of the tmux server at the time.
EnginePane(id, session, isActiveSession, lastUsed) ==
    TmuxPane(id, "dev pane", session, "1", "", FALSE, FALSE, isActiveSession,
             lastUsed, <<>>)

EnginePaneLists ==
    { <<>>,
      <<EnginePane("%1", "dev", FALSE, <<1>>), EnginePane("%2", "dev", FALSE, <<0>>)>>,
      <<EnginePane("%1", "dev", TRUE, <<0>>), EnginePane("%2", "ops", FALSE, <<1>>)>>,
      <<EnginePane("%2", "ops", FALSE, <<>>), EnginePane("%1", "dev", FALSE, <<>>)>>,
      <<EnginePane("%1", "dev", TRUE, <<0>>), EnginePane("%2", "dev", FALSE, <<1>>),
        EnginePane("%10", "ops", FALSE, <<>>)>> }

EngineSessions == {Undefined, "", "dev", "ops"}

\* The requests of the model: feedback is <<>> or <<[paneId, rating]>>.
Feedback(paneId, rating) == <<[paneId |-> paneId, rating |-> rating]>>

DescribeRequests ==
    { [paneHint |-> <<>>, feedback |-> <<>>],
      [paneHint |-> <<" Dev  Pane ">>, feedback |-> <<>>],
      [paneHint |-> <<>>, feedback |-> Feedback("%1", "match")],
      [paneHint |-> <<>>, feedback |-> Feedback("%2", "mismatch")],
      [paneHint |-> <<>>, feedback |-> Feedback("", "match")] }

\* What options.feedbackAdjustments() may return, numerators over ttlMs.
ExternalAdjustmentMaps == { EmptyMap, [id \in {"%1"} |-> ttlMs] }

EngineCandidateLists == { <<>>, <<"Dev", "pane,">> }

\* The engine is built with the default weights and interpreter.
baseWeights == DefaultWeights

IdleCall ==
    [pc |-> "idle", request |-> [paneHint |-> <<>>, feedback |-> <<>>],
     listPanes |-> "pending", panes |-> <<>>,
     getCurrentSession |-> "pending", agentSession |-> Undefined,
     scopedPanes |-> <<>>, hints |-> <<>>, timestamp |-> 0,
     listCalls |-> 0, managerAdjustments |-> EmptyMap,
     externalReturned |-> EmptyMap, externalAfter |-> EmptyMap,
     feedbackAdjustments |-> EmptyMap, scored |-> <<>>, sessionPanes |-> <<>>,
     error |-> ""]

EngineIdle ==
    /\ clock = 0
    /\ calls = [c \in Slots |-> IdleCall]

Fail(c, error) ==
    calls' = [calls EXCEPT ![c].pc = "failed", ![c].error = error]

(***************************************************************************)
(* The log fetcher's stream registry (log-fetcher.ts): openStream and      *)
(* stopStream on the closure variable `streams`.                           *)
(***************************************************************************)
\* What the stopToken generator (randomUUID unless one is injected) returns.
StreamTokens == {"token-1", "token-2"}

\* request.paneId of openStream; an absent paneId is "" (both are falsy).
StreamPaneIds == {"", "%1"}

NoError == <<>>
createMissingPaneError == <<"paneId is required">>
createInvalidTokenError == <<"Invalid stop token">>
createStreamNotFoundError(streamId) == <<"Stream not found: ", streamId>>
PipePaneError == <<"tmux pipe-pane failed">>

\* dependencies.id.generate(): a fresh id at every call (randomUUID in the
\* server's wiring); the n-th id generated is n.
generate(issued) == Len(issued) + 1

NoStreamCall ==
    [op |-> "create", paneId |-> "", streamId |-> 0, stopToken |-> "",
     error |-> NoError]

StreamIdle ==
    /\ streams = EmptyMap
    /\ handles = <<>>
    /\ streamCall = NoStreamCall
    /\ stopCalls = <<>>

(***************************************************************************)
(* The priority resolver (src/context-resolver.ts): describe orders the    *)
(* listed panes with createPriority and comparePriority.                   *)
(***************************************************************************)
HINT_PRIORITY == 0
ACTIVE_PRIORITY == 1
ACTIVE_WINDOW_PRIORITY == 2
ACTIVE_SESSION_PRIORITY == 3
DEFAULT_PRIORITY == 4

normalizePane(pane) ==
    [id |-> pane.id, title |-> pane.title, session |-> pane.session,
     window |-> pane.window, command |-> pane.currentCommand]

\* paneMatchesHint, line 57-67: the id is compared, the other fields are
\* searched; an absent currentCommand ("") holds no non-empty hint.
paneMatchesHint(pane, hint) ==
    LET lowerHint == Chars(toLowerCase(hint))
    IN  \/ toLowerCase(pane.id) = toLowerCase(hint)
        \/ includes(Chars(toLowerCase(pane.title)), lowerHint)
        \/ includes(Chars(toLowerCase(pane.window)), lowerHint)
        \/ includes(Chars(toLowerCase(pane.session)), lowerHint)
        \/ \E i \in DOMAIN pane.tags :
              includes(Chars(toLowerCase(pane.tags[i])), lowerHint)
        \/ includes(Chars(toLowerCase(pane.currentCommand)), lowerHint)

\* createPriority, line 69-107.  hint is <<>> when request.paneHint is absent
\* and <<string>> otherwise; the empty string is falsy.
createPriorityAnySession(pane, hint, activeSessions) ==
    LET recencyScore == Recency(pane)
    IN  IF hint # <<>> /\ hint[1] # "" /\ paneMatchesHint(pane, hint[1])
        THEN [score |-> HINT_PRIORITY, recencyScore |-> recencyScore]
        ELSE IF pane.isActive
        THEN [score |-> ACTIVE_PRIORITY, recencyScore |-> recencyScore]
        ELSE IF pane.isActiveWindow
        THEN [score |-> ACTIVE_WINDOW_PRIORITY, recencyScore |-> recencyScore]
        ELSE IF pane.isActiveSession
        THEN [score |-> ACTIVE_SESSION_PRIORITY, recencyScore |-> recencyScore]
        ELSE [score |-> DEFAULT_PRIORITY, recencyScore |-> recencyScore]

createPriority(pane, hint, activeSessions) ==
    LET recencyScore == Recency(pane)
        isInActiveSession == activeSessions = {} \/ pane.session \in activeSessions
    IN  IF hint # <<>> /\ hint[1] # "" /\ paneMatchesHint(pane, hint[1])
        THEN [score |-> HINT_PRIORITY, recencyScore |-> recencyScore]
        ELSE IF pane.isActive /\ isInActiveSession
        THEN [score |-> ACTIVE_PRIORITY, recencyScore |-> recencyScore]
        ELSE IF pane.isActiveWindow
        THEN [score |-> ACTIVE_WINDOW_PRIORITY, recencyScore |-> recencyScore]
        ELSE IF pane.isActiveSession
        THEN [score |-> ACTIVE_SESSION_PRIORITY, recencyScore |-> recencyScore]
        ELSE [score |-> DEFAULT_PRIORITY, recencyScore |-> recencyScore]

\* comparePriority, line 109-120: the sign of what it returns.
comparePriority(a, b) ==
    IF a.priority.score # b.priority.score
    THEN Sign(a.priority.score - b.priority.score)
    ELSE IF a.priority.recencyScore # b.priority.recencyScore
    THEN RecencyDiffSign(b.priority.recencyScore, a.priority.recencyScore)
    ELSE localeCompare(a.pane.id, b.pane.id)

\* Array.prototype.sort with comparePriority: a stable sort.
RECURSIVE InsertPriority(_, _)
InsertPriority(sorted, entry) ==
    IF sorted = <<>> THEN <<entry>>
    ELSE IF comparePriority(sorted[Len(sorted)], entry) <= 0
         THEN Append(sorted, entry)
         ELSE Append(InsertPriority(SubSeq(sorted, 1, Len(sorted) - 1), entry),
                     sorted[Len(sorted)])

RECURSIVE SortPriority(_)
SortPriority(entries) ==
    IF entries = <<>> THEN <<>>
    ELSE InsertPriority(SortPriority(SubSeq(entries, 1, Len(entries) - 1)),
                        entries[Len(entries)])

\* describe, line 130-153: what it returns, or the error it throws.
priorityDescribe(panes, paneHint) ==
    IF Len(panes) = 0
    THEN [called |-> TRUE, error |-> NoPaneError, primaryPane |-> <<>>,
          candidates |-> <<>>]
    ELSE LET activeSessions == { panes[i].session :
                                   i \in { j \in DOMAIN panes : panes[j].isActiveSession } }
             entries == [i \in DOMAIN panes |->
                           [pane |-> panes[i],
                            priority |-> createPriority(panes[i], paneHint,
                                                        activeSessions)]]
             ordered == SortPriority(entries)
             sorted == [i \in DOMAIN ordered |-> normalizePane(ordered[i].pane)]
         IN  [called |-> TRUE, error |-> "", primaryPane |-> <<sorted[1]>>,
              candidates |-> <<sorted[1]>> \o Tail(sorted)]

\* The panes listPanes returns: the patterns of the three flags that tell
\* the classes apart, in either session, with any lastUsed; the title goes
\* with the id.
PriorityPanes ==
    LET flagPatterns == { <<FALSE, FALSE, FALSE>>, <<TRUE, FALSE, FALSE>>,
                          <<FALSE, TRUE, FALSE>>, <<FALSE, FALSE, TRUE>>,
                          <<TRUE, TRUE, TRUE>> }
        titles == [id \in ScorerIds |->
                     CASE id = "%1" -> "build"
                       [] id = "%2" -> "Vim Main"
                       [] OTHER -> "logs tail"]
    IN  { TmuxPane(id, titles[id], session, "1", "", flags[1], flags[2], flags[3],
                   lastUsed, <<>>) :
            id \in ScorerIds, session \in {"dev", "ops"}, flags \in flagPatterns,
            lastUsed \in LastUsedValues }

\* The lists of at most MaxListed panes, in every order; pane ids are
\* unique, so that no list is longer than the set of ids.
PriorityPaneLists ==
    UNION { { panes \in [1..n -> PriorityPanes] :
                \A i, j \in 1..n : i # j => panes[i].id # panes[j].id } :
            n \in 0..Min(MaxListed, Cardinality(ScorerIds)) }

\* request.paneHint: absent, empty, a pane id, a title in another case.
PriorityHints == { <<>>, <<"">>, <<"%1">>, <<"VIM">> }

NotDescribed ==
    [called |-> FALSE, error |-> "", primaryPane |-> <<>>, candidates |-> <<>>]

PriorityIdle ==
    /\ priorityIn = [panes |-> <<>>, paneHint |-> <<>>]
    /\ priorityOut = NotDescribed

NoRecord == FeedbackRecord("", "", 0, FALSE)

\* What a call on the manager keeps of the call made before it: its
\* operation, its now, and how many records its prune removed.
NoPriorCall == [op |-> "none", now |-> 0, removed |-> 0]

PriorCall(last) == [op |-> last.op, now |-> last.now, removed |-> last.expired + last.evicted]

StoreIdle ==
    /\ maxEntries = 0
    /\ records = <<>>
    /\ call = [op |-> "create", record |-> NoRecord, now |-> 0, result |-> EmptyMap,
               expired |-> 0, evicted |-> 0, prior |-> NoPriorCall]

StoreInit ==
    /\ StreamIdle
    /\ PriorityIdle
    /\ ScoreIdle
    /\ HintIdle
    /\ EngineIdle
    /\ maxEntries \in 0..MaxOptEntries
    /\ records = <<>>
    /\ call = [op |-> "create", record |-> NoRecord, now |-> 0, result |-> EmptyMap,
               expired |-> 0, evicted |-> 0, prior |-> NoPriorCall]

\* manager.register(record), with a well-formed or a malformed record.
Register ==
    /\ Len(records) < StoreCap
    /\ \E record \in ValidRecords \cup MalformedRecords :
          /\ records' = register(records, record)
          /\ UNCHANGED <<streamVars, priorityVars, maxEntries, scoreVars, hintVars, engineVars>>
          /\ call' = [op |-> "register", record |-> record, now |-> 0,
                      result |-> EmptyMap, expired |-> 0, evicted |-> 0,
                      prior |-> PriorCall(call)]

\* getAdjustments reading the records before its prune has run.
GetAdjustmentsBeforePrune ==
    \E now \in 0..MaxTime :
       LET pruned == prune(records, now)
           kept == Len(PruneFilter(records, now))
       IN  /\ records' = pruned
           /\ UNCHANGED <<streamVars, priorityVars, maxEntries, scoreVars, hintVars, engineVars>>
           /\ call' = [op |-> "getAdjustments", record |-> NoRecord, now |-> now,
                       result |-> getAdjustments(records, now),
                       expired |-> Len(records) - kept,
                       evicted |-> kept - Len(pruned),
                       prior |-> PriorCall(call)]

\* manager.getAdjustments(now).  call.expired and call.evicted count the
\* records the call's prune removed by age and by the cap.
GetAdjustments ==
    \E now \in 0..MaxTime :
       LET pruned == prune(records, now)
           kept == Len(PruneFilter(records, now))
       IN  /\ records' = pruned
           /\ UNCHANGED <<streamVars, priorityVars, maxEntries, scoreVars, hintVars, engineVars>>
           /\ call' = [op |-> "getAdjustments", record |-> NoRecord, now |-> now,
                       result |-> getAdjustments(pruned, now),
                       expired |-> Len(records) - kept,
                       evicted |-> kept - Len(pruned),
                       prior |-> PriorCall(call)]

StoreNext == Register \/ GetAdjustments

SpecStore == StoreInit /\ [][StoreNext]_vars

(***************************************************************************)
(* The scorer on its own: one scorePanes call on any input of the bounds.  *)
(***************************************************************************)
ScoreInit ==
    /\ StreamIdle
    /\ PriorityIdle
    /\ StoreIdle
    /\ HintIdle
    /\ EngineIdle
    /\ scoreIn \in [panes : PaneLists, hints : HintLists, weights : WeightConfigs,
                     feedbackAdjustments : AdjustmentMaps]
    /\ scoreOut = NotScored
    /\ scoreLog = <<>>

\* scorePanes sorting its argument in place instead of the mapped array.
ScoreReturnsSortingInput(input, scored) ==
    /\ scoreIn' = [input EXCEPT !.panes = [i \in DOMAIN scored |-> scored[i].pane]]
    /\ scoreOut' = [called |-> TRUE, scored |-> scored]
    /\ scoreLog' = Append(scoreLog, [input |-> input, scored |-> scored])

\* A scorePanes call has returned `scored` for `input`.
ScoreReturns(input, scored) ==
    /\ scoreIn' = input
    /\ scoreOut' = [called |-> TRUE, scored |-> scored]
    /\ scoreLog' = Append(scoreLog, [input |-> input, scored |-> scored])

ScorePanes ==
    /\ ~scoreOut.called
    /\ ScoreReturns(scoreIn, scorePanes(scoreIn.panes, scoreIn.hints, scoreIn.weights,
                                        scoreIn.feedbackAdjustments))
    /\ UNCHANGED <<streamVars, priorityVars, storeVars, hintVars, engineVars>>

ScoreNext == ScorePanes

SpecScore == ScoreInit /\ [][ScoreNext]_vars

(***************************************************************************)
(* One scorer called several times: on the same input again, and on other  *)
(* inputs in between.                                                      *)
(***************************************************************************)
RescoreOtherInput ==
    [panes |-> <<TmuxPane("%1", "Vim Main", "dev", "1", "Vim", TRUE, TRUE, TRUE, <<1>>, <<>>),
                 TmuxPane("%2", "build", "ops", "2", "node", FALSE, FALSE, FALSE, <<>>, <<>>)>>,
     hints |-> <<WeightedHint("vim", 600000, "nl"), WeightedHint("logs", 400000, "nl")>>,
     weights |-> FractionWeights,
     feedbackAdjustments |-> [id \in {"%2", "%10"} |-> IF id = "%2" THEN 0 ELSE ttlMs]]

RescoreInit ==
    /\ StreamIdle
    /\ PriorityIdle
    /\ StoreIdle
    /\ HintIdle
    /\ EngineIdle
    /\ scoreIn \in [panes : PaneLists, hints : HintLists, weights : {DefaultWeights},
                     feedbackAdjustments :
                         {[id \in {"%1", "%2"} |-> IF id = "%1" THEN 1 ELSE -2 * ttlMs]}]
    /\ scoreOut = NotScored
    /\ scoreLog = <<>>

\* A further scorePanes call on the same scorer, on an input of an earlier
\* call or on another one.
ScorePanesAgain ==
    /\ scoreOut.called
    /\ Len(scoreLog) < MaxScoreCalls
    /\ \E input \in {RescoreOtherInput} \cup {scoreLog[i].input : i \in DOMAIN scoreLog} :
          ScoreReturns(input, scorePanes(input.panes, input.hints, input.weights,
                                         input.feedbackAdjustments))
    /\ UNCHANGED <<streamVars, priorityVars, storeVars, hintVars, engineVars>>

RescoreNext == ScorePanes \/ ScorePanesAgain

SpecRescore == RescoreInit /\ [][RescoreNext]_vars

(***************************************************************************)
(* The hint interpreter on its own: one interpret call on any input of the *)
(* bounds, the tokenizers returning any list of candidate tokens.          *)
(***************************************************************************)
HintInit ==
    /\ StreamIdle
    /\ PriorityIdle
    /\ StoreIdle
    /\ ScoreIdle
    /\ EngineIdle
    /\ hintIn \in [paneHint : PaneHintTexts, paneHints : PaneHintLists]
    /\ hintOut = NotInterpreted

Interpret ==
    /\ ~hintOut.called
    /\ \E candidates \in CandidateLists :
          /\ hintIn.paneHint = <<>> \/ normalizeTrim(hintIn.paneHint[1]) = ""
                => candidates = <<>>
          /\ hintOut' = [called |-> TRUE, candidates |-> candidates]
                          @@ interpret(hintIn, candidates)
    /\ UNCHANGED <<streamVars, priorityVars, hintIn, storeVars, scoreVars, engineVars>>

HintNext == Interpret

SpecHint == HintInit /\ [][HintNext]_vars

(***************************************************************************)
(* The resolver: describe calls on one engine, each a sequence of steps    *)
(* that ends at an await, while the clock of options.now advances.         *)
(***************************************************************************)
Init ==
    /\ StreamIdle
    /\ PriorityIdle
    /\ ScoreIdle
    /\ HintIdle
    /\ EngineIdle
    /\ maxEntries \in 0..MaxOptEntries
    /\ records = <<>>
    /\ call = [op |-> "create", record |-> NoRecord, now |-> 0, result |-> EmptyMap,
               expired |-> 0, evicted |-> 0, prior |-> NoPriorCall]

\* Time passes: options.now() never goes back.
Tick ==
    /\ \E t \in (clock + 1)..MaxTime : clock' = t
    /\ UNCHANGED <<streamVars, priorityVars, calls, storeVars, scoreVars, hintVars>>

\* describe(request), up to the await of listPanes (line 182).
DescribeStart(c) ==
    /\ calls[c].pc \in {"idle", "done", "failed"}
    /\ \E request \in DescribeRequests :
          calls' = [calls EXCEPT ![c] = [IdleCall EXCEPT !.pc = "listPanes",
                                                         !.request = request,
                                                         !.listCalls = 1]]
    /\ UNCHANGED <<streamVars, priorityVars, clock, storeVars, scoreVars, hintVars>>

\* listPanes rejects: describe rejects with the same error.
ListPanesFails(c) ==
    /\ calls[c].pc = "listPanes"
    /\ calls' = [calls EXCEPT ![c].pc = "failed", ![c].error = TmuxError,
                              ![c].listPanes = "rejected"]
    /\ UNCHANGED <<streamVars, priorityVars, clock, storeVars, scoreVars, hintVars>>

\* listPanes resolves to one of paneLists: line 183, up to the await of
\* getCurrentSession.
ListPanesResolves(c, paneLists) ==
    /\ calls[c].pc = "listPanes"
    /\ \E panes \in paneLists :
          IF Len(panes) = 0
          THEN calls' = [calls EXCEPT ![c].pc = "failed", ![c].error = NoPaneError,
                                      ![c].listPanes = "resolved"]
          ELSE calls' = [calls EXCEPT ![c].pc = "getCurrentSession",
                                      ![c].listPanes = "resolved",
                                      ![c].panes = panes]
    /\ UNCHANGED <<streamVars, priorityVars, clock, storeVars, scoreVars, hintVars>>

ListPanesReturns(c) == ListPanesResolves(c, EnginePaneLists)

\* getCurrentSession resolves to one of sessions: line 188-202, up to the
\* await of interpret.
CurrentSessionResolves(c, sessions) ==
    /\ calls[c].pc = "getCurrentSession"
    /\ \E agentSession \in sessions :
          LET scopedPanes == ScopePanes(calls[c].panes, agentSession)
          IN  IF Len(scopedPanes) = 0
              THEN calls' = [calls EXCEPT ![c].pc = "failed",
                                          ![c].error = NoPaneError,
                                          ![c].getCurrentSession = "resolved",
                                          ![c].agentSession = agentSession]
              ELSE calls' = [calls EXCEPT ![c].pc = "interpret",
                                          ![c].getCurrentSession = "resolved",
                                          ![c].agentSession = agentSession,
                                          ![c].scopedPanes = scopedPanes]
    /\ UNCHANGED <<streamVars, priorityVars, clock, storeVars, scoreVars, hintVars>>

CurrentSessionReturns(c) == CurrentSessionResolves(c, EngineSessions)

InterpretFailsAfterRegister(c) ==
    /\ calls[c].pc = "interpret"
    /\ Fail(c, InterpreterError)
    /\ records' = FeedbackSection(records, calls[c].request.feedback, clock).records
    /\ UNCHANGED <<streamVars, priorityVars, clock, maxEntries, call, scoreVars, hintVars>>

\* interpret rejects: describe rejects with the same error.
InterpretFails(c) ==
    /\ calls[c].pc = "interpret"
    /\ Fail(c, InterpreterError)
    /\ UNCHANGED <<streamVars, priorityVars, clock, storeVars, scoreVars, hintVars>>

\* line 231-254: the result of a describe whose panes have been scored.
DescribeResult(section, feedbackAdjustments, weightedHints, scored) ==
    [records |-> section.records,
     managerAdjustments |-> section.managerAdjustments,
     feedbackAdjustments |-> feedbackAdjustments,
     hints |-> weightedHints,
     scored |-> scored,
     sessionPanes |-> [i \in DOMAIN scored |-> toResultPane(scored[i])]]

\* line 224-229: score the scoped panes under the merged adjustments.
DescribeScore(section, feedbackAdjustments, scopedPanes, weightedHints) ==
    DescribeResult(section, feedbackAdjustments, weightedHints,
                   scorePanes(scopedPanes, weightedHints, baseWeights,
                              feedbackAdjustments))

\* line 215-229: merge the adjustments of the external source and of the
\* store section, and score.
DescribeSection(section, scopedPanes, weightedHints, externalAdjustments) ==
    DescribeScore(section,
                  MergeAdjustments(externalAdjustments, section.managerAdjustments),
                  scopedPanes, weightedHints)
       @@ [externalReturned |-> externalAdjustments,
           externalAfter |-> ExternalAfterMerge(externalAdjustments,
                                                section.managerAdjustments)]

\* The end of describe: the store is written, and the call returns its
\* panes (line 231 and 234 throw when there is none).
DescribeEnds(c, timestamp, result) ==
    /\ records' = result.records
    /\ IF Len(result.scored) = 0 \/ Len(result.sessionPanes) = 0
       THEN Fail(c, NoPaneError)
       ELSE calls' = [calls EXCEPT
               ![c].pc = "done",
               ![c].hints = result.hints,
               ![c].timestamp = timestamp,
               ![c].managerAdjustments = result.managerAdjustments,
               ![c].externalReturned = result.externalReturned,
               ![c].externalAfter = result.externalAfter,
               ![c].feedbackAdjustments = result.feedbackAdjustments,
               ![c].scored = result.scored,
               ![c].sessionPanes = result.sessionPanes]

InterpretResolvesInTwoSteps(c, candidateLists, adjustmentMaps) ==
    \/ /\ calls[c].pc = "interpret"
       /\ records' = IF calls[c].request.feedback = <<>> THEN records
                     ELSE register(records,
                            FeedbackRecord(calls[c].request.feedback[1].paneId,
                                           calls[c].request.feedback[1].rating,
                                           clock, TRUE))
       /\ calls' = [calls EXCEPT ![c].pc = "registered", ![c].timestamp = clock]
       /\ UNCHANGED <<streamVars, priorityVars, clock, maxEntries, call, scoreVars, hintVars>>
    \/ /\ calls[c].pc = "registered"
       /\ \E candidates \in candidateLists,
             externalAdjustments \in adjustmentMaps :
             /\ calls[c].request.paneHint = <<>> => candidates = <<>>
             /\ DescribeEnds(c, calls[c].timestamp,
                   DescribeSection(
                       FeedbackSection(records, <<>>, calls[c].timestamp),
                       calls[c].scopedPanes,
                       interpret([paneHint |-> calls[c].request.paneHint,
                                  paneHints |-> <<>>], candidates).weightedHints,
                       externalAdjustments))
       /\ UNCHANGED <<streamVars, priorityVars, clock, maxEntries, call, scoreVars, hintVars>>

\* interpret resolves, the tokenizers having given one of candidateLists and
\* the external source one of adjustmentMaps: line 204-254, to the end of
\* describe.
InterpretResolves(c, candidateLists, adjustmentMaps) ==
    /\ calls[c].pc = "interpret"
    /\ \E candidates \in candidateLists,
          externalAdjustments \in adjustmentMaps :
          /\ calls[c].request.paneHint = <<>> => candidates = <<>>
          /\ DescribeEnds(c, clock,
                DescribeSection(
                    FeedbackSection(records, calls[c].request.feedback, clock),
                    calls[c].scopedPanes,
                    interpret([paneHint |-> calls[c].request.paneHint,
                               paneHints |-> <<>>], candidates).weightedHints,
                    externalAdjustments))
    /\ UNCHANGED <<streamVars, priorityVars, clock, maxEntries, call, scoreVars, hintVars>>

InterpretReturns(c) ==
    InterpretResolves(c, EngineCandidateLists, ExternalAdjustmentMaps)

Describe(c) ==
    \/ DescribeStart(c)
    \/ ListPanesFails(c)
    \/ ListPanesReturns(c)
    \/ CurrentSessionReturns(c)
    \/ InterpretFails(c)
    \/ InterpretReturns(c)

Next == Tick \/ \E c \in Slots : Describe(c)

Spec == Init /\ [][Next]_vars

(***************************************************************************)
(* Concurrent describe calls on one engine: each slot makes one call, and  *)
(* the calls interleave at their awaits.  The code between two awaits runs *)
(* to its end before any other callback of the event loop.                 *)
(***************************************************************************)
ConcurrentSlots == {1, 2}

ConcurrentInit ==
    /\ StreamIdle
    /\ PriorityIdle
    /\ ScoreIdle
    /\ HintIdle
    /\ clock = 0
    /\ calls = [c \in ConcurrentSlots |-> IdleCall]
    /\ maxEntries \in 0..MaxOptEntries
    /\ records = <<>>
    /\ call = [op |-> "create", record |-> NoRecord, now |-> 0, result |-> EmptyMap,
               expired |-> 0, evicted |-> 0, prior |-> NoPriorCall]

\* The inputs of the concurrent calls.
ConcurrentRequests ==
    { [paneHint |-> <<>>, feedback |-> <<>>],
      [paneHint |-> <<>>, feedback |-> Feedback("%1", "match")],
      [paneHint |-> <<>>, feedback |-> Feedback("%2", "mismatch")] }

ConcurrentPaneLists ==
    { <<>>,
      <<EnginePane("%1", "dev", FALSE, <<1>>), EnginePane("%2", "dev", FALSE, <<0>>)>> }

ConcurrentSessions == {Undefined, "ops"}

\* describe(request) of a slot that has made no call yet.
DescribeOnce(c) ==
    /\ calls[c].pc = "idle"
    /\ \E request \in ConcurrentRequests :
          calls' = [calls EXCEPT ![c] = [IdleCall EXCEPT !.pc = "listPanes",
                                                         !.request = request,
                                                         !.listCalls = 1]]
    /\ UNCHANGED <<streamVars, priorityVars, clock, storeVars, scoreVars, hintVars>>

DescribeConcurrently(c) ==
    \/ DescribeOnce(c)
    \/ ListPanesFails(c)
    \/ ListPanesResolves(c, ConcurrentPaneLists)
    \/ CurrentSessionResolves(c, ConcurrentSessions)
    \/ InterpretFails(c)
    \/ InterpretResolves(c, {<<>>}, {EmptyMap})

ConcurrentNext == Tick \/ \E c \in ConcurrentSlots : DescribeConcurrently(c)

SpecConcurrent == ConcurrentInit /\ [][ConcurrentNext]_vars

(***************************************************************************)
(* The log fetcher's streams: openStream and stopStream calls on one       *)
(* fetcher, one at a time, with any id and any token.                      *)
(***************************************************************************)
StreamInit ==
    /\ StoreIdle
    /\ ScoreIdle
    /\ HintIdle
    /\ EngineIdle
    /\ PriorityIdle
    /\ streams = EmptyMap
    /\ handles = <<>>
    /\ streamCall = NoStreamCall
    /\ stopCalls = <<>>

\* openStream(request), line 167-179: it throws on a missing paneId and
\* when pipePane rejects, and registers the stream otherwise.
OpenStream ==
    /\ Len(handles) < MaxStreams
    /\ \E paneId \in StreamPaneIds, pipes \in BOOLEAN, token \in StreamTokens :
          LET id == generate(handles)
              error == IF paneId = "" THEN createMissingPaneError
                       ELSE IF ~pipes THEN PipePaneError
                       ELSE NoError
          IN  /\ streams' = IF error = NoError
                            THEN MapPut(streams, id, [token |-> token, paneId |-> paneId])
                            ELSE streams
              /\ handles' = IF error = NoError
                            THEN Append(handles, [id |-> id, stopToken |-> token])
                            ELSE handles
              /\ streamCall' = [op |-> "openStream", paneId |-> paneId,
                                streamId |-> IF error = NoError THEN id ELSE 0,
                                stopToken |-> IF error = NoError THEN token ELSE "",
                                error |-> error]
    /\ UNCHANGED <<stopCalls, storeVars, scoreVars, hintVars, engineVars, priorityVars>>

\* stopStream(streamId, stopToken), line 181-187: the two throws, then
\* streams.delete, then the await of entry.stop(), which resolves or rejects.
StopStream ==
    /\ \E streamId \in 1..MaxStreams, stopToken \in StreamTokens \cup {"wrong"},
          stops \in BOOLEAN :
          LET error == IF streamId \notin DOMAIN streams
                          THEN createStreamNotFoundError(streamId)
                       ELSE IF streams[streamId].token # stopToken
                          THEN createInvalidTokenError
                       ELSE IF ~stops THEN PipePaneError
                       ELSE NoError
          IN  /\ streams' = IF error \in {NoError, PipePaneError}
                            THEN [id \in (DOMAIN streams) \ {streamId} |-> streams[id]]
                            ELSE streams
              /\ streamCall' = [op |-> "stopStream", paneId |-> "",
                                streamId |-> streamId, stopToken |-> stopToken,
                                error |-> error]
    /\ UNCHANGED <<handles, stopCalls, storeVars, scoreVars, hintVars, engineVars,
                   priorityVars>>

StreamNext == OpenStream \/ StopStream

SpecStreams == StreamInit /\ [][StreamNext]_vars

(***************************************************************************)
(* Interleaved stopStream calls on one fetcher.  A call runs from its      *)
(* start to the await of entry.stop() before any other callback of the     *)
(* event loop, and ends when the promise of entry.stop() settles.  An      *)
(* entry of stopCalls is "thrown" when the call threw before the await,    *)
(* "awaiting" once it has invoked entry.stop(), then "resolved" or         *)
(* "rejected".  openStream writes `streams` in one piece after its await   *)
(* of pipePane, so OpenStream stands for that piece.                       *)
(***************************************************************************)
StopCall(streamId, stopToken, error) ==
    [streamId |-> streamId, stopToken |-> stopToken, error |-> error,
     state |-> IF error = NoError THEN "awaiting" ELSE "thrown"]

\* stopStream with the entry deleted only after the await of entry.stop().
StopStreamBeginsKeepingEntry ==
    /\ Len(stopCalls) < MaxStopCalls
    /\ \E streamId \in 1..MaxStreams, stopToken \in StreamTokens \cup {"wrong"} :
          LET error == IF streamId \notin DOMAIN streams
                          THEN createStreamNotFoundError(streamId)
                       ELSE IF streams[streamId].token # stopToken
                          THEN createInvalidTokenError
                       ELSE NoError
          IN  /\ streams' = streams
              /\ stopCalls' = Append(stopCalls, StopCall(streamId, stopToken, error))
              /\ streamCall' = [op |-> "stopStream", paneId |-> "",
                                streamId |-> streamId, stopToken |-> stopToken,
                                error |-> error]
    /\ UNCHANGED <<handles, storeVars, scoreVars, hintVars, engineVars, priorityVars>>

\* stopStream(streamId, stopToken), line 181-186, up to the await: the two
\* throws, then streams.delete, then the invocation of entry.stop().
StopStreamBegins ==
    /\ Len(stopCalls) < MaxStopCalls
    /\ \E streamId \in 1..MaxStreams, stopToken \in StreamTokens \cup {"wrong"} :
          LET error == IF streamId \notin DOMAIN streams
                          THEN createStreamNotFoundError(streamId)
                       ELSE IF streams[streamId].token # stopToken
                          THEN createInvalidTokenError
                       ELSE NoError
          IN  /\ streams' = IF error = NoError
                            THEN [id \in (DOMAIN streams) \ {streamId} |-> streams[id]]
                            ELSE streams
              /\ stopCalls' = Append(stopCalls, StopCall(streamId, stopToken, error))
              /\ streamCall' = [op |-> "stopStream", paneId |-> "",
                                streamId |-> streamId, stopToken |-> stopToken,
                                error |-> error]
    /\ UNCHANGED <<handles, storeVars, scoreVars, hintVars, engineVars, priorityVars>>

\* line 186: the promise of entry.stop() settles, and the stopStream call
\* that awaits it resolves or rejects with it.
StopStreamSettles ==
    /\ \E i \in DOMAIN stopCalls, stops \in BOOLEAN :
          /\ stopCalls[i].state = "awaiting"
          /\ stopCalls' = [stopCalls EXCEPT
                              ![i].state = IF stops THEN "resolved" ELSE "rejected",
                              ![i].error = IF stops THEN NoError ELSE PipePaneError]
          /\ streamCall' = [op |-> "stopStream", paneId |-> "",
                            streamId |-> stopCalls[i].streamId,
                            stopToken |-> stopCalls[i].stopToken,
                            error |-> IF stops THEN NoError ELSE PipePaneError]
    /\ UNCHANGED <<streams, handles, storeVars, scoreVars, hintVars, engineVars,
                   priorityVars>>

StreamConcurrentNext == OpenStream \/ StopStreamBegins \/ StopStreamSettles

SpecStreamsConcurrent == StreamInit /\ [][StreamConcurrentNext]_vars

(***************************************************************************)
(* The priority resolver on its own: one describe call on any list of      *)
(* panes of the bounds and any paneHint.                                   *)
(***************************************************************************)
PriorityInit ==
    /\ StoreIdle
    /\ ScoreIdle
    /\ HintIdle
    /\ EngineIdle
    /\ StreamIdle
    /\ priorityIn \in [panes : PriorityPaneLists, paneHint : PriorityHints]
    /\ priorityOut = NotDescribed

PriorityDescribe ==
    /\ ~priorityOut.called
    /\ priorityOut' = priorityDescribe(priorityIn.panes, priorityIn.paneHint)
    /\ UNCHANGED <<priorityIn, storeVars, scoreVars, hintVars, engineVars, streamVars>>

PriorityNext == PriorityDescribe

SpecPriority == PriorityInit /\ [][PriorityNext]_vars

(***************************************************************************)
(* Properties of the feedback manager, checked under SpecStore.            *)
(***************************************************************************)
\* The age of a record at `now`, and whether it has not expired at `now`.
AgeAt(record, now) == now - record.timestamp
Unexpired(record, now) == AgeAt(record, now) < ttlMs

\* What a record adds to its pane at `now`, as a numerator over ttlMs:
\* sign * (1 - age/ttlMs), sign * 1 at age 0 (a record stamped after `now`
\* counts as age 0), nothing once age >= ttlMs.
ExpectedContribution(record, now) ==
    LET sign == IF record.rating = "match" THEN 1 ELSE -1
        a == AgeAt(record, now)
    IN  IF a >= ttlMs THEN 0
        ELSE IF a <= 0 THEN sign * ttlMs
        ELSE sign * (ttlMs - a)

ExpectedAdjustment(recs, paneId, now) ==
    SumSeq([i \in DOMAIN recs |->
              IF recs[i].paneId = paneId THEN ExpectedContribution(recs[i], now)
              ELSE 0])

\* C4: a getAdjustments(now) on a store of maxEntries + k unexpired records,
\* k >= 1, keeps maxEntries of them, none older than an evicted one, and its
\* result is made of the kept records alone.
C4_EvictsOldest ==
    [][ ( /\ call'.op = "getAdjustments"
          /\ Len(records) > maxEntries
          /\ \A i \in DOMAIN records : Unexpired(records[i], call'.now) )
        => /\ Len(records') = maxEntries
           /\ \E kept \in SUBSET (DOMAIN records) :
                 /\ Cardinality(kept) = maxEntries
                 /\ \A r \in Range(records) :
                       CountIn(records', r)
                         = Cardinality({ i \in kept : records[i] = r })
                 /\ \A i \in (DOMAIN records) \ kept : \A j \in kept :
                       records[i].timestamp <= records[j].timestamp
                 /\ \A p \in PaneIds :
                       MapGet(call'.result, p, 0)
                         = SumSeq([i \in DOMAIN records |->
                                     IF i \in kept /\ records[i].paneId = p
                                     THEN ExpectedContribution(records[i], call'.now)
                                     ELSE 0])
      ]_vars

\* C4 witness: a read that expired nothing and evicted two records, of which
\* the kept one is strictly newer than an evicted one.
C4_Witness ==
    /\ call.op = "getAdjustments"
    /\ call.expired = 0
    /\ call.evicted = 2
    /\ Len(records) = maxEntries
    /\ maxEntries = 1
    /\ records[1].timestamp = MaxStamp

\* C5 as stated: the store never holds more than maxEntries records.
C5_AlwaysBounded == Len(records) <= maxEntries

\* C5 amended: after a getAdjustments call the store holds at most maxEntries
\* records.
C5_BoundedAfterRead ==
    call.op = "getAdjustments" => Len(records) <= maxEntries

C5_Witness ==
    /\ call.op = "getAdjustments"
    /\ call.evicted > 0
    /\ maxEntries > 0
    /\ Len(records) = maxEntries

\* C6 as stated: after getAdjustments(now) no record of age >= ttlMs is
\* retained.
C6_NoExpiredRetained ==
    call.op = "getAdjustments" =>
       \A i \in DOMAIN records : AgeAt(records[i], call.now) < ttlMs

\* C7: the value getAdjustments(now) returns for a pane is the sum, over the
\* pane's retained records, of sign * (1 - age/ttlMs): magnitude 1 at age 0,
\* 0 at age >= ttlMs, strictly decreasing in between.
C7_DecayedSum ==
    call.op = "getAdjustments" =>
       \A p \in PaneIds :
          MapGet(call.result, p, 0) = ExpectedAdjustment(records, p, call.now)

\* C7 witness: a pane with two surviving records of one rating, one of age 0
\* and one at half the time-to-live: the pane's value is 1.5 in magnitude.
C7_Witness ==
    /\ call.op = "getAdjustments"
    /\ \E i, j \in DOMAIN records :
          /\ records[i].paneId = records[j].paneId
          /\ AgeAt(records[i], call.now) = 0
          /\ 2 * AgeAt(records[j], call.now) = ttlMs
          /\ records[i].rating = records[j].rating
          /\ call.result[records[i].paneId]
               = (IF records[i].rating = "match" THEN 1 ELSE -1) * (ttlMs + ttlMs \div 2)

\* C8: the keys of the map getAdjustments(now) returns are the panes with a
\* retained record of age < ttlMs.
C8_KeysAreSurvivors ==
    call.op = "getAdjustments" =>
       DOMAIN call.result
         = { records[i].paneId :
               i \in { j \in DOMAIN records : Unexpired(records[j], call.now) } }

\* C8 witness: one pane has a surviving record and is a key; the other has
\* only a retained record that does not survive, and is not a key.
C8_Witness ==
    /\ call.op = "getAdjustments"
    /\ \E p, q \in PaneIds :
          /\ p \in DOMAIN call.result
          /\ q \notin DOMAIN call.result
          /\ \E i \in DOMAIN records : records[i].paneId = q

WellFormed(record) ==
    /\ record.paneId # ""
    /\ record.rating \in {"match", "mismatch"}
    /\ record.finite

\* C9: a register of a malformed record leaves the store as it was; a register
\* of a well-formed record appends it.
C9_RegisterValidates ==
    [][ call'.op = "register" =>
          IF WellFormed(call'.record)
          THEN records' = Append(records, call'.record)
          ELSE records' = records
      ]_vars

\* C9 witness: a malformed record was offered to a store that holds records.
C9_Witness ==
    /\ call.op = "register"
    /\ ~WellFormed(call.record)
    /\ call.record.paneId # ""
    /\ Len(records) = 2

(***************************************************************************)
(* Properties of the scorer, checked under SpecScore.                      *)
(***************************************************************************)
\* The UTF-16 code unit of a character of a pane id.
CodeUnit(c) ==
    CASE c = "%" -> 37
      [] c = "0" -> 48
      [] c = "1" -> 49
      [] c = "2" -> 50

\* a < b on two strings, as JavaScript compares strings: by code units.
RECURSIVE CharsLess(_, _)
CharsLess(a, b) ==
    IF b = <<>> THEN FALSE
    ELSE IF a = <<>> THEN TRUE
    ELSE IF CodeUnit(Head(a)) # CodeUnit(Head(b))
         THEN CodeUnit(Head(a)) < CodeUnit(Head(b))
    ELSE CharsLess(Tail(a), Tail(b))

StringLess(a, b) == CharsLess(Chars(a), Chars(b))

\* a.lastUsed > b.lastUsed, a missing lastUsed being below every number.
LastUsedAbove(a, b) ==
    /\ a.lastUsed # <<>>
    /\ b.lastUsed = <<>> \/ a.lastUsed[1] > b.lastUsed[1]

\* C1: in the list scorePanes returns, every entry and the one after it are
\* ordered by total descending, then lastUsed descending (missing last), then
\* id ascending; the input lists of SpecScore come in every order.
C1_RankingOrder ==
    scoreOut.called =>
       \A i \in 1..(Len(scoreOut.scored) - 1) :
          LET a == scoreOut.scored[i]
              b == scoreOut.scored[i + 1]
          IN  \/ a.total > b.total
              \/ /\ a.total = b.total
                 /\ LastUsedAbove(a.pane, b.pane)
              \/ /\ a.total = b.total
                 /\ a.pane.lastUsed = b.pane.lastUsed
                 /\ StringLess(a.pane.id, b.pane.id)

\* C1 witness: three panes of one total given as %1, %2, %10 come back as
\* %10 and %2 (lastUsed 0, by id) and then %1 (no lastUsed).
C1_Witness ==
    /\ scoreOut.called
    /\ Len(scoreOut.scored) = 3
    /\ scoreIn.panes[1].id = "%1"
    /\ scoreIn.panes[2].id = "%2"
    /\ scoreOut.scored[1].total = scoreOut.scored[3].total
    /\ scoreOut.scored[1].pane.id = "%10"
    /\ scoreOut.scored[1].pane.lastUsed = <<0>>
    /\ scoreOut.scored[2].pane.id = "%2"
    /\ scoreOut.scored[2].pane.lastUsed = <<0>>
    /\ scoreOut.scored[3].pane.id = "%1"
    /\ scoreOut.scored[3].pane.lastUsed = <<>>

(***************************************************************************)
(* Properties of the hint interpreter, checked under SpecHint.             *)
(***************************************************************************)
Abs(n) == IF n < 0 THEN -n ELSE n

\* The sum of the returned weights, in millionths.
ReturnedWeightSum ==
    SumSeq([i \in DOMAIN hintOut.weightedHints |-> hintOut.weightedHints[i].weight])

\* C2 as stated: a non-empty list of returned hints sums to 1.0 within 1e-6,
\* and the list is empty when no hint survives.
C2_SumWithinOneMillionth ==
    hintOut.called =>
       /\ hintOut.weightedHints # <<>> => Abs(ReturnedWeightSum - Micro) <= 1
       /\ hintOut.pending = <<>> => hintOut.weightedHints = <<>>

\* C2 amended: a non-empty list of n returned hints sums to 1.0 within
\* n * 0.5e-6, each weight being rounded to 1e-6 on its own; the list is
\* empty exactly when no hint survives.
C2_SumWithinHalfPerHint ==
    hintOut.called =>
       /\ 2 * Abs(ReturnedWeightSum - Micro) <= Len(hintOut.weightedHints)
            \/ hintOut.weightedHints = <<>>
       /\ hintOut.pending = <<>> <=> hintOut.weightedHints = <<>>

\* C2 witness: six returned hints, from two structured hints of declared
\* weights 1 and 3 and a free-text hint of three tokens, sum to 1.000002.
C2_Witness ==
    /\ hintOut.called
    /\ Len(hintOut.weightedHints) = 6
    /\ ReturnedWeightSum = Micro + 2
    /\ hintOut.weightedHints[2].source = "composite"
    /\ hintOut.weightedHints[2].weight = 500000
    /\ hintOut.weightedHints[6].source = "nl"

(***************************************************************************)
(* Properties of describe.                                                 *)
(***************************************************************************)
\* A describe call ends successfully in this step.
Completes(c) == calls[c].pc = "interpret" /\ calls'[c].pc = "done"

RatingSign(rating) == IF rating = "match" THEN 1 ELSE -1

\* The request carries a correction the store accepts.
CarriesCorrection(request) ==
    /\ request.feedback # <<>>
    /\ request.feedback[1].paneId # ""
    /\ request.feedback[1].rating \in Ratings

\* C3 as stated: a describe that carries a correction for pane p adds +1 or
\* -1 to p's adjustment in that call, and every correction registered so far
\* still affects its pane in every later describe call of the engine.
C3_AffectsAllLaterCalls ==
    [][ \A c \in Slots :
          (Completes(c) /\ maxEntries >= 1) =>
            /\ CarriesCorrection(calls[c].request) =>
                 calls[c].request.feedback[1].paneId
                     \in DOMAIN calls'[c].managerAdjustments
            /\ \A i \in DOMAIN records :
                 records[i].paneId \in DOMAIN calls'[c].managerAdjustments ]_vars

\* C3, amended: on an engine that keeps at least one record, a describe that
\* carries a correction for pane p registers it with the call's timestamp
\* before the adjustments are read, so it is the newest retained record and
\* adds +1 (match) or -1 (mismatch) to p's adjustment in that call; in every
\* describe call the adjustment of a pane is the sum of the decayed
\* contributions of the records still retained, so an earlier correction
\* counts only while it is retained and younger than ttlMs.
C3_SameCallThenWhileRetained ==
    [][ \A c \in Slots :
          Completes(c) =>
            LET request == calls[c].request
                timestamp == calls'[c].timestamp
                adjustments == calls'[c].managerAdjustments
                n == Len(records')
            IN  /\ \A p \in PaneIds :
                     MapGet(adjustments, p, 0) = ExpectedAdjustment(records', p, timestamp)
                /\ (CarriesCorrection(request) /\ maxEntries >= 1) =>
                     LET feedback == request.feedback[1]
                     IN  /\ n >= 1
                         /\ records'[n] = FeedbackRecord(feedback.paneId, feedback.rating,
                                                         timestamp, TRUE)
                         /\ feedback.paneId \in DOMAIN adjustments
                         /\ adjustments[feedback.paneId]
                              = ExpectedAdjustment(SubSeq(records', 1, n - 1),
                                                   feedback.paneId, timestamp)
                                + RatingSign(feedback.rating) * ttlMs ]_vars

\* A describe with a match for %1 has ended on a store that already held an
\* older, still counting correction of %1: the adjustment is above +1.
C3_Witness ==
    \E c \in Slots :
        /\ calls[c].pc = "done"
        /\ calls[c].request.feedback = Feedback("%1", "match")
        /\ Len(records) = 2
        /\ records[1].paneId = "%1"
        /\ records[1].timestamp < calls[c].timestamp
        /\ records[2].timestamp = calls[c].timestamp
        /\ "%1" \in DOMAIN calls[c].managerAdjustments
        /\ calls[c].managerAdjustments["%1"] > ttlMs

\* C10: a describe whose listPanes resolves to no pane, or whose scoping
\* leaves no pane (a reported session that no pane belongs to, whatever panes
\* other sessions have), fails with the no-pane error, and a describe that
\* succeeds returns at least one pane.
C10_NoPaneErrorOrPanes ==
    \A c \in Slots :
        LET k == calls[c]
            reported == k.agentSession # Undefined /\ k.agentSession # ""
        IN  /\ (k.listPanes = "resolved" /\ Len(k.panes) = 0)
                 => (k.pc = "failed" /\ k.error = NoPaneError)
            /\ ( /\ k.getCurrentSession = "resolved"
                 /\ reported
                 /\ \A i \in DOMAIN k.panes : k.panes[i].session # k.agentSession )
                 => (k.pc = "failed" /\ k.error = NoPaneError)
            /\ (k.getCurrentSession = "resolved" /\ Len(k.scopedPanes) = 0)
                 => (k.pc = "failed" /\ k.error = NoPaneError)
            /\ k.pc = "done" => Len(k.sessionPanes) >= 1

\* A describe has failed with the no-pane error although listPanes returned
\* panes, all of them outside the reported session.
C10_Witness ==
    \E c \in Slots :
        /\ calls[c].pc = "failed"
        /\ calls[c].error = NoPaneError
        /\ calls[c].getCurrentSession = "resolved"
        /\ calls[c].agentSession = "ops"
        /\ Len(calls[c].panes) = 2
        /\ \A i \in DOMAIN calls[c].panes : calls[c].panes[i].session = "dev"

\* The ids of the panes a describe returned, and of the panes the scoping
\* rule of C11 selects when `reported` tells whether a session was reported.
ResultIds(k) == { k.sessionPanes[i].id : i \in DOMAIN k.sessionPanes }

FlaggedSessions(panes) ==
    { panes[i].session : i \in { j \in DOMAIN panes : panes[j].isActiveSession } }

ScopedIds(panes, agentSession, reported) ==
    IF reported
    THEN { panes[i].id : i \in { j \in DOMAIN panes : panes[j].session = agentSession } }
    ELSE IF FlaggedSessions(panes) # {}
    THEN { panes[i].id :
             i \in { j \in DOMAIN panes : panes[j].session \in FlaggedSessions(panes) } }
    ELSE { panes[i].id : i \in DOMAIN panes }

\* C11: the panes of a describe result are, each once, the panes of the
\* session getCurrentSession reported (a non-empty name), whatever the
\* isActiveSession flags; when no session is reported, the panes of the
\* sessions flagged active, if any; otherwise all panes.
C11_ScopedByNonEmptySession ==
    \A c \in Slots :
        calls[c].pc = "done" =>
            /\ Len(calls[c].sessionPanes) = Cardinality(ResultIds(calls[c]))
            /\ ResultIds(calls[c])
                 = ScopedIds(calls[c].panes, calls[c].agentSession,
                             calls[c].agentSession # Undefined
                                 /\ calls[c].agentSession # "")

\* A describe returned the one pane of the reported session "ops" although
\* the other pane, of session "dev", is the one flagged active.
C11_Witness ==
    \E c \in Slots :
        /\ calls[c].pc = "done"
        /\ calls[c].agentSession = "ops"
        /\ Len(calls[c].panes) = 2
        /\ \E i \in DOMAIN calls[c].panes :
              calls[c].panes[i].isActiveSession /\ calls[c].panes[i].session = "dev"
        /\ ResultIds(calls[c]) = {"%2"}

\* C12: a step of a describe call other than its successful end (the start,
\* the failure or the empty result of listPanes, an empty scoped set, the
\* failure of interpret) leaves the feedback store as it was, so a failed
\* call retains nothing and changes no later adjustment; a finished call has
\* called listPanes once.
C12_FailedCallLeavesStore ==
    [][ \A c \in Slots :
          /\ (calls'[c] # calls[c] /\ calls'[c].pc # "done") => records' = records
          /\ calls'[c].pc \in {"done", "failed"} => calls'[c].listCalls = 1 ]_vars

\* A describe that carried a correction for %1 failed in interpret, on a
\* store that holds no record of %1.
C12_Witness ==
    \E c \in Slots :
        /\ calls[c].pc = "failed"
        /\ calls[c].error = InterpreterError
        /\ calls[c].request.feedback = Feedback("%1", "match")
        /\ Len(records) = 1
        /\ records[1].paneId = "%2"

(***************************************************************************)
(* Properties of concurrent describe calls.                                *)
(***************************************************************************)
\* The calls that have ended successfully, and the orders they can be put in.
DoneCalls == { c \in DOMAIN calls : calls[c].pc = "done" }

SerialOrders ==
    { order \in [1..Cardinality(DoneCalls) -> DoneCalls] :
        \A i, j \in DOMAIN order : order[i] = order[j] => i = j }

\* Running the store sections of the calls one after the other, in this
\* order and from the store recs, gives every call the adjustments it
\* returned and ends in the present store.
RECURSIVE SerialRun(_, _, _)
SerialRun(order, i, recs) ==
    IF i > Len(order) THEN recs = records
    ELSE LET k == calls[order[i]]
             section == FeedbackSection(recs, k.request.feedback, k.timestamp)
         IN  /\ section.managerAdjustments = k.managerAdjustments
             /\ SerialRun(order, i + 1, section.records)

\* C13: with describe calls interleaving at their awaits, the store and the
\* adjustments of the calls that have ended are those of some serial order
\* of their register/getAdjustments sections (so no record is lost or
\* evicted twice), and the section of a call reads the store as it was
\* before that call's register, with no other call's write in between.
C13_StoreSectionsSerialized ==
    /\ [](\E order \in SerialOrders : SerialRun(order, 1, <<>>))
    /\ [][ \A c \in DOMAIN calls :
             (calls[c].pc # "done" /\ calls'[c].pc = "done") =>
                LET section == FeedbackSection(records, calls[c].request.feedback,
                                               calls'[c].timestamp)
                IN  /\ records' = section.records
                    /\ calls'[c].managerAdjustments = section.managerAdjustments ]_vars

\* Both calls have ended, each with a correction, the section of the second
\* one having run first: the first call's adjustments hold both corrections,
\* the second call's only its own, and both records are retained.
C13_Witness ==
    /\ calls[1].pc = "done"
    /\ calls[2].pc = "done"
    /\ calls[1].request.feedback = Feedback("%1", "match")
    /\ calls[2].request.feedback = Feedback("%2", "mismatch")
    /\ calls[2].timestamp < calls[1].timestamp
    /\ Len(records) = 2
    /\ DOMAIN calls[1].managerAdjustments = {"%1", "%2"}
    /\ DOMAIN calls[2].managerAdjustments = {"%2"}

C15_TotalIsStageSum ==
    scoreOut.called =>
       \A i \in DOMAIN scoreOut.scored :
          LET entry == scoreOut.scored[i]
              stages == entry.stageContributions
          IN  /\ DOMAIN stages
                   = {"default", "hint", "activePane", "activeWindow", "activeSession",
                      "layoutSameWindow", "layoutSameSession", "commandCategory",
                      "feedback"}
              /\ entry.total
                   = stages["default"] + stages["hint"] + stages["activePane"]
                     + stages["activeWindow"] + stages["activeSession"]
                     + stages["layoutSameWindow"] + stages["layoutSameSession"]
                     + stages["commandCategory"] + stages["feedback"]

\* A pane scored under the default weights with a feedback adjustment of -2
\* has a feedback contribution of -2 and a total of -1.5.
C15_Witness ==
    /\ scoreOut.called
    /\ scoreIn.weights = DefaultWeights
    /\ \E i \in DOMAIN scoreOut.scored :
          /\ scoreOut.scored[i].stageContributions["feedback"] = -2 * Micro
          /\ scoreOut.scored[i].stageContributions["default"] = Micro \div 2
          /\ scoreOut.scored[i].total = -(3 * Micro) \div 2

\* C16: for every scored pane and every stage whose multiplier is negative
\* and whose condition holds for the pane (always for defaultPane; a matching
\* hint; the pane, its window or its session flagged active; the pane in a
\* window or session of a flagged pane; a bonus for the pane's command), the
\* stage's contribution is the negative value.
C16_NegativeWeightsScored ==
    scoreOut.called =>
       \A i \in DOMAIN scoreOut.scored :
          LET pane == scoreOut.scored[i].pane
              stages == scoreOut.scored[i].stageContributions
              weights == scoreIn.weights
              panes == scoreIn.panes
              hints == scoreIn.hints
              command == toLowerCase(pane.currentCommand)
              bonus == MapGet(weights.commandCategories, command, 0)
          IN  /\ weights.defaultPane < 0 => stages["default"] = weights.defaultPane
              /\ (weights.hint < 0
                    /\ \E h \in DOMAIN hints : paneMatchesToken(pane, hints[h].token))
                   => stages["hint"] < 0
              /\ (weights.activePane < 0 /\ pane.isActive)
                   => stages["activePane"] = weights.activePane
              /\ (weights.activeWindow < 0 /\ pane.isActiveWindow)
                   => stages["activeWindow"] = weights.activeWindow
              /\ (weights.activeSession < 0 /\ pane.isActiveSession)
                   => stages["activeSession"] = weights.activeSession
              /\ (weights.layoutBonus.sameWindow < 0
                    /\ \E j \in DOMAIN panes :
                          panes[j].isActiveWindow /\ panes[j].window = pane.window)
                   => stages["layoutSameWindow"] = weights.layoutBonus.sameWindow
              /\ (weights.layoutBonus.sameSession < 0
                    /\ \E j \in DOMAIN panes :
                          panes[j].isActiveSession /\ panes[j].session = pane.session)
                   => stages["layoutSameSession"] = weights.layoutBonus.sameSession
              /\ (command # "" /\ bonus < 0) => stages["commandCategory"] = bonus

(***************************************************************************)
(* Properties of the weights interpret returns.                            *)
(***************************************************************************)
\* C17: every hint interpret returns has a weight above 0 and at most 1.
C17_WeightInUnitInterval ==
    hintOut.called =>
       \A i \in DOMAIN hintOut.weightedHints :
          /\ hintOut.weightedHints[i].weight > 0
          /\ hintOut.weightedHints[i].weight <= Micro

\* The tokens of the tokenizers' candidates that survive: lower-cased,
\* stripped of outer punctuation, not empty, not a stop word, not a single
\* hiragana.
SurvivingTokens(candidates) ==
    { token \in { stripPunctuation(sanitizeToken(candidates[i])) : i \in DOMAIN candidates } :
        token # "" /\ ~isStopWord(token) /\ ~isMinorKanaToken(token) }

PendingOf(source) == { i \in DOMAIN hintOut.pending : hintOut.pending[i].source = source }

ReturnedOf(source) ==
    { i \in DOMAIN hintOut.weightedHints : hintOut.weightedHints[i].source = source }

\* C18: for a free-text hint that is not blank and has n >= 1 surviving
\* tokens, interpret emits one exact hint of weight 1 and one
\* natural-language hint of weight 1/n per surviving token; when no
\* structured hint is given, the exact hint is returned at 0.5 and every
\* natural-language hint at 0.5/n, to the millionth.
C18_ExactAndTokensShareEvenly ==
    LET survivors == SurvivingTokens(hintOut.candidates)
        n == Cardinality(survivors)
    IN  ( /\ hintOut.called
          /\ hintIn.paneHint # <<>>
          /\ normalizeTrim(hintIn.paneHint[1]) # ""
          /\ n >= 1 )
        => /\ Cardinality(PendingOf("exact")) = 1
           /\ \A i \in PendingOf("exact") :
                 hintOut.pending[i].weight.num = hintOut.pending[i].weight.den
           /\ Cardinality(PendingOf("nl")) = n
           /\ { hintOut.pending[i].token : i \in PendingOf("nl") } = survivors
           /\ \A i \in PendingOf("nl") :
                 hintOut.pending[i].weight.num * n = hintOut.pending[i].weight.den
           /\ PendingOf("composite") = {}
                => /\ \A i \in ReturnedOf("exact") :
                         hintOut.weightedHints[i].weight = Micro \div 2
                   /\ \A i \in ReturnedOf("nl") :
                         Abs(2 * n * hintOut.weightedHints[i].weight - Micro) <= n

\* The hint " Dev  Pane " with the surviving tokens dev, pane and logs and no
\* structured hint: the exact hint is returned at 0.5 and the three tokens at
\* 0.166667 each.
C18_Witness ==
    /\ hintOut.called
    /\ hintIn.paneHints = <<>>
    /\ SurvivingTokens(hintOut.candidates) = {"dev", "pane", "logs"}
    /\ Len(hintOut.weightedHints) = 4
    /\ hintOut.weightedHints[1] = [token |-> "dev pane", weight |-> 500000, source |-> "exact"]
    /\ \A i \in 2..4 : hintOut.weightedHints[i].weight = 166667

(***************************************************************************)
(* Properties of the log fetcher's streams, checked under SpecStreams.     *)
(***************************************************************************)
\* C19: a stopStream call succeeds only when its id names an open stream and
\* its token is the one openStream returned for that stream; it fails with
\* 'Stream not found' on an unknown id and with 'Invalid stop token' on a
\* wrong token; and a call that fails leaves the registry as it was, the
\* stream still registered.
C19_FailedStopLeavesStreamRegistered ==
    [][streamCall'.op = "stopStream" =>
          LET streamId == streamCall'.streamId
              stopToken == streamCall'.stopToken
              error == streamCall'.error
          IN  /\ error = NoError =>
                    /\ streamId \in DOMAIN streams
                    /\ \E i \in DOMAIN handles :
                          handles[i] = [id |-> streamId, stopToken |-> stopToken]
              /\ streamId \notin DOMAIN streams =>
                    error = createStreamNotFoundError(streamId)
              /\ streamId \in DOMAIN streams /\ streams[streamId].token # stopToken =>
                    error = createInvalidTokenError
              /\ error # NoError => streams' = streams]_vars

(***************************************************************************)
(* Properties of the priority resolver, checked under SpecPriority.        *)
(***************************************************************************)
\* The listed pane a candidate stands for (pane ids are unique).
ListedPane(candidate) ==
    CHOOSE pane \in Range(priorityIn.panes) : pane.id = candidate.id

\* The sessions flagged active: those of the panes with isActiveSession.
FlaggedActiveSessions ==
    { pane.session : pane \in { q \in Range(priorityIn.panes) : q.isActiveSession } }

\* The priority class of a listed pane, 0 the first and 4 the last.
PriorityClass(pane) ==
    IF /\ priorityIn.paneHint \notin {<<>>, <<"">>}
       /\ paneMatchesHint(pane, priorityIn.paneHint[1])
    THEN 0
    ELSE IF /\ pane.isActive
            /\ FlaggedActiveSessions = {} \/ pane.session \in FlaggedActiveSessions
    THEN 1
    ELSE IF pane.isActiveWindow THEN 2
    ELSE IF pane.isActiveSession THEN 3
    ELSE 4

\* C20: describe of the priority resolver returns every listed pane exactly
\* once, primaryPane being the first candidate, and each candidate and the
\* one after it are ordered by priority class (hint match, active pane of an
\* active session or of any session when none is flagged, active window,
\* active session, the rest), then lastUsed descending, then id ascending.
C20_OrderedByPriorityClass ==
    priorityOut.called /\ priorityOut.error = "" =>
       LET candidates == priorityOut.candidates
       IN  /\ priorityOut.primaryPane = <<candidates[1]>>
           /\ Len(candidates) = Len(priorityIn.panes)
           /\ \A i \in DOMAIN priorityIn.panes :
                 Cardinality({ j \in DOMAIN candidates :
                                 candidates[j] = normalizePane(priorityIn.panes[i]) }) = 1
           /\ \A i \in 1..(Len(candidates) - 1) :
                 LET a == ListedPane(candidates[i])
                     b == ListedPane(candidates[i + 1])
                 IN  \/ PriorityClass(a) < PriorityClass(b)
                     \/ /\ PriorityClass(a) = PriorityClass(b)
                        /\ LastUsedAbove(a, b)
                     \/ /\ PriorityClass(a) = PriorityClass(b)
                        /\ a.lastUsed = b.lastUsed
                        /\ StringLess(a.id, b.id)

\* C20 witness: listed as %2, %10, %1 with paneHint '%1', the pane %1 comes
\* first, then %10, flagged active in the one session flagged active, then
\* %2, flagged active in another session and in the active window.
C20_Witness ==
    /\ priorityOut.called
    /\ priorityIn.paneHint = <<"%1">>
    /\ Len(priorityIn.panes) = 3
    /\ priorityIn.panes[1].id = "%2"
    /\ priorityIn.panes[1].isActive
    /\ priorityIn.panes[1].isActiveWindow
    /\ priorityIn.panes[1].session = "ops"
    /\ priorityIn.panes[2].id = "%10"
    /\ priorityIn.panes[2].isActive
    /\ ~priorityIn.panes[2].isActiveSession
    /\ priorityIn.panes[2].session = "dev"
    /\ priorityIn.panes[3].id = "%1"
    /\ priorityIn.panes[3].session = "dev"
    /\ priorityIn.panes[3].isActiveSession
    /\ ~priorityIn.panes[3].isActive
    /\ priorityOut.primaryPane[1].id = "%1"
    /\ priorityOut.candidates[2].id = "%10"
    /\ priorityOut.candidates[3].id = "%2"

(***************************************************************************)
(* Properties of the stage contributions and the reasons of scorePanes,    *)
(* checked under SpecScore.                                                *)
(***************************************************************************)
\* C21: for every scored pane and every weight configuration, each stage
\* contribution other than feedback is at least 0.
C21_OnlyFeedbackNegative ==
    scoreOut.called =>
       \A i \in DOMAIN scoreOut.scored :
          \A stage \in Range(STAGES) \ {"feedback"} :
             scoreOut.scored[i].stageContributions[stage] >= 0

\* The position of a stage in the fixed order of STAGES.
StageIndex(stage) == CHOOSE k \in DOMAIN STAGES : STAGES[k] = stage

\* C22: for every scored pane, each stage with a non-zero contribution has a
\* reason in reasons, and the reasons come in the order of STAGES.
C22_NonZeroStagesHaveReasons ==
    scoreOut.called =>
       \A i \in DOMAIN scoreOut.scored :
          LET entry == scoreOut.scored[i]
          IN  /\ \A stage \in Range(STAGES) :
                    entry.stageContributions[stage] # 0
                       => \E k \in DOMAIN entry.reasons : entry.reasons[k].stage = stage
              /\ \A j, k \in DOMAIN entry.reasons :
                    j < k => StageIndex(entry.reasons[j].stage)
                                <= StageIndex(entry.reasons[k].stage)

\* C30: for every scored pane, a stage that has a reason in reasons has a
\* non-zero contribution.
C30_ReasonsOnlyForNonZeroStages ==
    scoreOut.called =>
       \A i \in DOMAIN scoreOut.scored :
          LET entry == scoreOut.scored[i]
          IN  \A k \in DOMAIN entry.reasons :
                 entry.stageContributions[entry.reasons[k].stage] # 0

\* The input of the call has a pane flagged isActiveWindow in this window.
InActiveWindow(window) ==
    \E j \in DOMAIN scoreIn.panes :
       scoreIn.panes[j].isActiveWindow /\ scoreIn.panes[j].window = window

\* The input of the call has a pane flagged isActiveSession in this session.
InActiveSession(session) ==
    \E j \in DOMAIN scoreIn.panes :
       scoreIn.panes[j].isActiveSession /\ scoreIn.panes[j].session = session

\* C24: in one scorePanes call the layoutSameWindow (resp. layoutSameSession)
\* contribution of a pane is weights.layoutBonus.sameWindow (resp.
\* sameSession) when its window (resp. session) is that of some pane of the
\* call flagged isActiveWindow (resp. isActiveSession), flagged panes
\* included, and 0 for every other pane.
C24_LayoutBonusForSharedWindowOrSession ==
    scoreOut.called =>
       \A i \in DOMAIN scoreOut.scored :
          LET pane == scoreOut.scored[i].pane
              stages == scoreOut.scored[i].stageContributions
              bonus == scoreIn.weights.layoutBonus
          IN  /\ stages["layoutSameWindow"]
                    = IF InActiveWindow(pane.window) THEN bonus.sameWindow ELSE 0
              /\ stages["layoutSameSession"]
                    = IF InActiveSession(pane.session) THEN bonus.sameSession ELSE 0

\* The token is a case-insensitive substring of the pane's id, title, window,
\* session, currentCommand or of one of its tags.
TokenInPane(pane, token) ==
    LET lower == Chars(toLowerCase(token))
        fields == {pane.id, pane.title, pane.window, pane.session, pane.currentCommand}
                     \cup Range(pane.tags)
    IN  \E field \in fields : includes(Chars(toLowerCase(field)), lower)

\* C25: the hint contribution of every scored pane is the sum of hint.weight
\* * weights.hint (each product to the six decimals the scorer keeps) over
\* the hints of the call whose token is in the pane, each hint counted once,
\* and 0 when there is none.
C25_HintIsSumOverMatchingHints ==
    scoreOut.called =>
       \A i \in DOMAIN scoreOut.scored :
          LET pane == scoreOut.scored[i].pane
              hints == scoreIn.hints
          IN  scoreOut.scored[i].stageContributions["hint"]
                 = SumSeq([k \in DOMAIN hints |->
                             IF TokenInPane(pane, hints[k].token)
                             THEN roundProduct(hints[k].weight, scoreIn.weights.hint)
                             ELSE 0])


\* C26: a scorePanes call returns exactly one scored entry per candidate of
\* its input, none dropped and none duplicated, whatever the hints, the
\* weights and the feedback adjustments, and leaves the list of candidates
\* it was given as it was, in order and in content.
C26_OneEntryPerCandidateInputUntouched ==
    [][(~scoreOut.called /\ scoreOut'.called) =>
          /\ scoreIn' = scoreIn
          /\ Len(scoreOut'.scored) = Len(scoreIn.panes)
          /\ \A i \in DOMAIN scoreIn.panes :
                Cardinality({j \in DOMAIN scoreOut'.scored :
                                scoreOut'.scored[j].pane = scoreIn.panes[i]})
                   = Cardinality({j \in DOMAIN scoreIn.panes :
                                     scoreIn.panes[j] = scoreIn.panes[i]})]_vars

\* C26 witness: a call on three candidates has returned them in another order
\* than the one it was given.
C26_Witness ==
    /\ scoreOut.called
    /\ Len(scoreIn.panes) = MaxPanes
    /\ Len(scoreOut.scored) = MaxPanes
    /\ scoreOut.scored[1].pane # scoreIn.panes[1]
    /\ scoreOut.scored[MaxPanes].pane # scoreIn.panes[MaxPanes]


\* C29: pruning is idempotent.  A getAdjustments(now) call that directly
\* follows a getAdjustments call with the same now, no register in between,
\* returns a map equal to the first call's and leaves the retained records
\* as the first call left them.
C29_PruneIsIdempotent ==
    [][ ( /\ call.op = "getAdjustments"
          /\ call'.op = "getAdjustments"
          /\ call'.now = call.now )
        => /\ call'.result = call.result
           /\ records' = records
           /\ call'.expired = 0
           /\ call'.evicted = 0 ]_vars

\* C29 witness: a getAdjustments call has followed a getAdjustments call with
\* the same now whose prune had removed records, and records with a non-zero
\* adjustment are retained.
C29_Witness ==
    /\ call.op = "getAdjustments"
    /\ call.prior.op = "getAdjustments"
    /\ call.prior.now = call.now
    /\ call.prior.removed > 0
    /\ Len(records) > 1
    /\ DOMAIN call.result # {}


\* C23: the feedback adjustment a successful describe passes to the scorer
\* for a pane p is the external source's value for p (0 if absent) plus the
\* feedback store's adjustment for p (0 if absent); the panes of the merged
\* map are those of either map, a pane present in only one of them keeping
\* that value; and the map the external source returned is as it was.
C23_AdjustmentsMergedAdditively ==
    \A c \in Slots :
        calls[c].pc = "done" =>
           LET k == calls[c]
               merged == k.feedbackAdjustments
           IN  /\ DOMAIN merged =
                     (DOMAIN k.externalReturned) \cup (DOMAIN k.managerAdjustments)
               /\ \A p \in DOMAIN merged \cup ScorerIds :
                     MapGet(merged, p, 0)
                        = MapGet(k.externalReturned, p, 0)
                             + MapGet(k.managerAdjustments, p, 0)
               /\ k.scored = scorePanes(k.scopedPanes, k.hints, baseWeights, merged)
               /\ k.externalAfter = k.externalReturned

\* C23 witness: a describe has succeeded with pane %1 in both maps, the store
\* giving it a non-zero adjustment, and pane %2 in the store's map only.
C23_Witness ==
    \E c \in Slots :
        /\ calls[c].pc = "done"
        /\ "%1" \in DOMAIN calls[c].externalReturned
        /\ "%1" \in DOMAIN calls[c].managerAdjustments
        /\ calls[c].managerAdjustments["%1"] # 0
        /\ "%2" \in DOMAIN calls[c].managerAdjustments
        /\ "%2" \notin DOMAIN calls[c].externalReturned
        /\ calls[c].feedbackAdjustments["%2"] # 0
        /\ \E i \in DOMAIN calls[c].scored : calls[c].scored[i].pane.id = "%1"


\* C27: in every successful describe the layoutSameSession contribution is
\* the same for all returned panes, whether the panes were scoped to the
\* current session, to the active sessions, or not scoped at all.
C27_SameSessionBonusIsUniform ==
    \A c \in Slots :
        calls[c].pc = "done" =>
           \A i, j \in DOMAIN calls[c].scored :
              calls[c].scored[i].stageContributions["layoutSameSession"]
                 = calls[c].scored[j].stageContributions["layoutSameSession"]

\* C27 witness: no session was reported, the active session's two panes were
\* returned out of three listed, one of them flagged, and both carry the bonus.
C27_Witness ==
    \E c \in Slots :
        /\ calls[c].pc = "done"
        /\ calls[c].agentSession = Undefined
        /\ Len(calls[c].panes) = 3
        /\ Len(calls[c].scored) = 2
        /\ \E i \in DOMAIN calls[c].scored : ~calls[c].scored[i].pane.isActiveSession
        /\ \A i \in DOMAIN calls[c].scored :
              calls[c].scored[i].stageContributions["layoutSameSession"]
                 = baseWeights.layoutBonus.sameSession


\* The stopStream calls that have invoked the stop callback of stream id.
StopInvocations(id) ==
    { i \in DOMAIN stopCalls : stopCalls[i].streamId = id /\ stopCalls[i].state # "thrown" }

\* C28: the stop callback of an opened stream is invoked at most once over
\* any interleaving of stopStream calls: once a stopStream call has passed
\* the token check of a stream, every other stopStream call for that id
\* fails with "Stream not found", whether the first call has settled or is
\* still awaiting the stop callback.
C28_StopInvokedAtMostOnce ==
    /\ \A id \in 1..MaxStreams : Cardinality(StopInvocations(id)) <= 1
    /\ \A i, j \in DOMAIN stopCalls :
          ( /\ i < j
            /\ stopCalls[i].streamId = stopCalls[j].streamId
            /\ stopCalls[i].state # "thrown" )
          => /\ stopCalls[j].state = "thrown"
             /\ stopCalls[j].error = createStreamNotFoundError(stopCalls[j].streamId)

\* C28 witness: while a stopStream call awaits the stop callback, a second
\* call for the same stream with the same, right token has failed with
\* "Stream not found".
C28_Witness ==
    /\ Len(stopCalls) >= 2
    /\ stopCalls[1].state = "awaiting"
    /\ stopCalls[2].streamId = stopCalls[1].streamId
    /\ stopCalls[2].stopToken = stopCalls[1].stopToken
    /\ stopCalls[2].state = "thrown"
    /\ stopCalls[2].error = createStreamNotFoundError(stopCalls[1].streamId)

==========================================================================
